---- MODULE Spec2Model ----
(***************************************************************************)
(* A model of coffea's processor/executor.py: the pool executors           *)
(* (FuturesExecutor, ParslExecutor) with the _FuturesHolder / _watcher /   *)
(* _wait_for_merges machinery, the other executors' calls, the chunker     *)
(* FileMeta.chunks, the DaskExecutor tree reduction and the retry driver   *)
(* Runner.automatic_retries.                                               *)
(***************************************************************************)
EXTENDS Integers, Sequences, FiniteSets, TLC

(***************************************************************************)
(* Bounds of the model.                                                    *)
(***************************************************************************)
MaxItems == 3      \* items handed to one pool executor call
MaxMerges == 2     \* merge tasks one pool executor call may submit
MaxSkipped == 1    \* items 1..MaxSkipped may return None (a skipped file)
MaxEntries == 6    \* numentries of the chunked file
MaxTarget == 4     \* target_chunksize, as argument and as sent by the consumer
MaxRetries == 2    \* retries of the retry driver
MaxDaskItems == 5  \* items handed to one DaskExecutor call
MaxTree == 3       \* treereduction of the DaskExecutor
MaxRounds == 4     \* rounds of the DaskExecutor's reduction loop
MaxFiles == 2      \* files known to the Runner
MaxRuns == 2       \* preprocess calls that share one metadata cache
MaxCap == 3        \* maxchunks, when given

VARIABLES
    \* ---- an executor call (IterativeExecutor, FuturesExecutor, ParslExecutor)
    cfg,         \* the executor instance: kind, merging, recoverable, compression
    nitems,      \* len(items) of the call
    fut,         \* every handle of the backend: its state, result, exception
    FH,          \* the _FuturesHolder of the call
    pc,          \* position of the driver inside __call__ / _watcher / _wait_for_merges
    merge_size,  \* _watcher's local merge_size
    merged,      \* _watcher's local merged
    caught,      \* the exception caught in __call__ (0: none)
    ret,         \* what __call__ returned or raised
    \* ---- FileMeta.chunks, one generator run
    meta,            \* the FileMeta's metadata: numentries, clusters
    align_clusters,  \* argument of chunks
    target_chunksize,\* argument of chunks, replaced by what the consumer sends
    update,          \* local of chunks
    start,           \* local of chunks
    actual_chunksize,\* local of chunks
    chunks,          \* local of chunks (aligned mode): the boundaries
    gen,             \* the generator: "new", "yielded", "returned"
    emitted,         \* the WorkItems yielded so far, as <<entrystart, entrystop>>
    sent,            \* what the consumer sent last (0: None, a plain next())
    resized,         \* whether a send has replaced target_chunksize so far
    \* ---- Runner.automatic_retries, one call
    retries,      \* argument
    skipbadfiles, \* argument
    fails_first,  \* func raises on its first fails_first calls, then returns
    retry_count,  \* local
    calls,        \* how often func has been called
    raised,       \* the exception func raised last
    outcome,      \* "running", "result", "None", "raised"
    \* ---- DaskExecutor.__call__
    dask,         \* the executor instance: treereduction, compression
    ditems,       \* len(items)
    does,         \* what function does on each item: "ok", "skip", "raise"
    work,         \* local work: the list of handles
    rounds,       \* rounds of the reduction loop run so far
    dpc,          \* position inside __call__
    dret,         \* what __call__ returned or raised
    \* ---- Runner.preprocess, a sequence of calls that share a metadata cache
    badfiles,        \* the files whose metadata probe raises a read error
    metadata_cache,  \* the cache: per file its metadata, or NoMeta
    lru,             \* the cache's maxsize, and its files from the least to the
                     \* most recently used
    runner,          \* the Runner: align_clusters, pre_executor
    fileset,         \* the files of the call
    filemeta,        \* the metadata attribute of each FileMeta of the call
    to_get,          \* local of _preprocess_fileset_root
    pre_out,         \* what the pre_executor gave: how, acc, err
    final_fileset,   \* what _filter_badfiles returned: the files that are chunked
    probes,          \* how often each file has been handed to a pre_executor
    nruns,           \* how many preprocess calls have been started
    rpc,             \* position inside preprocess
    given,           \* the arguments of the call: fileset, treename
    listed,          \* what list(_normalize_fileset(fileset, treename)) gave
    \* ---- Runner.preprocess from _filter_badfiles on, and _chunk_generator
    config,          \* the Runner: chunksize, maxchunks, align_clusters, skipbadfiles
    normalized,      \* the list of FileMeta after _preprocess_fileset_root
    retained,        \* local `fileset` after _filter_badfiles and reverse()
    position,        \* how many turns of `for filemeta in fileset` are done
    nchunks,         \* local of _chunk_generator: chunks counted per dataset
    collected,       \* local `chunks` of _chunk_generator (maxchunks given)
    stream,          \* the WorkItems yielded so far
    spc,             \* position: "preprocess", "chunking", "done", "raised"
    \* Runner.run after its executor call
    run,             \* how run ended: what it returned or raised, and whether
                     \* postprocess was called
    \* JECStack.__init__
    jecstack         \* the arguments of the constructor and what came of it

poolVars == <<cfg, nitems, fut, FH, pc, merge_size, merged, caught, ret>>
chunkVars == <<meta, align_clusters, target_chunksize, update, start,
               actual_chunksize, chunks, gen, emitted, sent, resized>>
retryVars == <<retries, skipbadfiles, fails_first, retry_count, calls, raised, outcome>>
daskVars == <<dask, ditems, does, work, rounds, dpc, dret>>

runnerVars == <<badfiles, metadata_cache, lru, runner, fileset, filemeta, to_get, pre_out,
                final_fileset, probes, nruns, rpc, given, listed>>

streamVars == <<config, normalized, retained, position, nchunks, collected, stream, spc>>

vars == <<poolVars, chunkVars, retryVars, daskVars, runnerVars, streamVars, run, jecstack>>

otherThanPool == <<chunkVars, retryVars, daskVars, runnerVars, streamVars, run, jecstack>>
otherThanChunks == <<poolVars, retryVars, daskVars, runnerVars, streamVars, run, jecstack>>
otherThanRetry == <<poolVars, chunkVars, daskVars, runnerVars, streamVars, run, jecstack>>
otherThanDask == <<poolVars, chunkVars, retryVars, runnerVars, streamVars, run, jecstack>>
otherThanRunner == <<poolVars, chunkVars, retryVars, streamVars, run, jecstack>>
otherThanStream == <<poolVars, chunkVars, retryVars, daskVars, runnerVars, run, jecstack>>
otherThanRun == <<poolVars, chunkVars, retryVars, daskVars, runnerVars, streamVars, jecstack>>
otherThanJEC == <<poolVars, chunkVars, retryVars, daskVars, runnerVars, streamVars, run>>

(***************************************************************************)
(* Values.  An accumulator counts, per item, how often that item's output  *)
(* has been merged into it; slot 0 counts the accumulator that the caller  *)
(* passed to the executor (the "zero").  A value is None, an accumulator,  *)
(* the LZ4 bytes of an accumulator, or what comes of adding bytes.         *)
(***************************************************************************)
Slots == 0..(IF MaxItems > MaxDaskItems THEN MaxItems ELSE MaxDaskItems)
NoCount == [s \in Slots |-> 0]
Unit(i) == [s \in Slots |-> IF s = i THEN 1 ELSE 0]

None == [kind |-> "None", cnt |-> NoCount]
Acc(c) == [kind |-> "acc", cnt |-> c]
Garbage == [kind |-> "garbage", cnt |-> NoCount]

NoCompression == 0   \* compression=None

\* the accumulator's "+" (coffea.processor.accumulator.add / iadd)
add(a, b) ==
    IF a.kind = "acc" /\ b.kind = "acc"
    THEN Acc([s \in Slots |-> a.cnt[s] + b.cnt[s]])
    ELSE Garbage

\* accumulate(items, accum): None items are skipped, the first item seeds a
\* None accum, the others are added in turn.
RECURSIVE accumulate(_, _)
accumulate(items, accum) ==
    IF items = <<>> THEN accum
    ELSE IF Head(items).kind = "None" THEN accumulate(Tail(items), accum)
    ELSE IF accum.kind = "None" THEN accumulate(Tail(items), Head(items))
    ELSE accumulate(Tail(items), add(accum, Head(items)))

_compress(item, compression) ==
    IF item.kind = "None" \/ compression = NoCompression THEN item
    ELSE IF item.kind = "acc" THEN [item EXCEPT !.kind = "bytes"]
    ELSE Garbage

_decompress(item) ==
    IF item.kind = "bytes" THEN [item EXCEPT !.kind = "acc"] ELSE item

\* map(f, items) for the two conversions
MapDecompress(items) == [k \in 1..Len(items) |-> _decompress(items[k])]

NotNone(items) == SelectSeq(items, LAMBDA it : it.kind # "None")

\* _reduce.__call__: [exc: raised ValueError, val: the value returned]
_reduce(items, compression) ==
    LET its == NotNone(items) IN
    IF Len(its) = 0 THEN [exc |-> TRUE, val |-> None]
    ELSE IF compression # NoCompression
    THEN LET out == _decompress(its[Len(its)])
             rest == SubSeq(its, 1, Len(its) - 1)
         IN [exc |-> FALSE,
             val |-> _compress(accumulate(MapDecompress(rest), out), compression)]
    ELSE [exc |-> FALSE, val |-> accumulate(its, None)]

\* _compression_wrapper.__call__ around the user's function; an executor
\* without compression calls the function itself
WrappedOutput(out, compression) == _compress(out, compression)

(***************************************************************************)
(* Handles (futures).  Work handle i runs function(item i); the merge      *)
(* handles are numbered after them.                                        *)
(***************************************************************************)
WorkHandles == 1..MaxItems
MergeHandles == (MaxItems + 1)..(MaxItems + MaxMerges)
Handles == WorkHandles \cup MergeHandles

NoFuture == [st |-> "none", val |-> None, exc |-> 0, arg |-> <<>>]
Submitted(arg) == [st |-> "pending", val |-> None, exc |-> 0, arg |-> arg]

Finished(h) == fut[h].st \in {"ok", "failed", "cancelled"}

\* _good_future
_good_future(h) ==
    Finished(h) /\ fut[h].st # "cancelled" /\ fut[h].exc = 0

\* a set of handles as a list, in some order (set.pop() order)
RECURSIVE ListOf(_)
ListOf(S) ==
    IF S = {} THEN <<>>
    ELSE LET h == CHOOSE x \in S : \A y \in S : x <= y
         IN <<h>> \o ListOf(S \ {h})

Results(hs) == LET l == ListOf(hs) IN [k \in 1..Len(l) |-> fut[l[k]].val]

Min(a, b) == IF a < b THEN a ELSE b
Max(a, b) == IF a > b THEN a ELSE b

(***************************************************************************)
(* Executor configurations.                                                *)
(***************************************************************************)
NoMerging == <<0, 0, 0>>     \* merging=False
\* merging=True is (5, 4, 100)
MergingChoices ==
    {NoMerging} \cup {<<2, 2, 3>>, <<5, 4, 100>>, <<5, 1, 100>>}

Merging == cfg.merging # NoMerging

\* _merge_size without its bounds
_merge_size_unclamped(size) == (size \div cfg.merging[1]) + 1

\* FuturesExecutor._merge_size / ParslExecutor._merge_size
_merge_size(size) ==
    Min(cfg.merging[3], Max((size \div cfg.merging[1]) + 1, cfg.merging[2]))

NoError == 0
NoReturn == [how |-> "running", acc |-> None, err |-> NoError]

NotBuilt == [how |-> "none"]
Raised == [how |-> "raise"]
NoStack == [args |-> [corrections |-> {}], built |-> NotBuilt]
JECIdle == jecstack = NoStack

NoRun == [how |-> "none", out |-> None, err |-> NoError, postprocessed |-> FALSE]

EmptyFH ==
    [futures |-> {}, merges |-> {}, completed |-> {},
     done_futures |-> 0, done_merges |-> 0, running |-> 0]

NoTimeout == 0    \* tailtimeout=None

\* IterativeExecutor has neither merging nor recoverable nor tailtimeout
ExecutorConfigs ==
    [kind : {"futures", "parsl"},
     merging : MergingChoices,
     recoverable : BOOLEAN,
     compression : {NoCompression, 1},
     tailtimeout : {NoTimeout}]
    \cup
    [kind : {"futures"},
     merging : {NoMerging},
     recoverable : BOOLEAN,
     compression : {1},
     tailtimeout : {1}]
    \cup
    [kind : {"iterative"},
     merging : {NoMerging},
     recoverable : {FALSE},
     compression : {NoCompression, 1},
     tailtimeout : {NoTimeout}]

PoolInit ==
    /\ cfg \in ExecutorConfigs
    /\ nitems \in 0..MaxItems
    /\ fut = [h \in Handles |-> NoFuture]
    /\ FH = EmptyFH
    /\ pc = "call"
    /\ merge_size = 0
    /\ merged = None
    /\ caught = NoError
    /\ ret = NoReturn
    /\ run = NoRun

\* no executor call is under way
PoolIdle ==
    /\ cfg = [kind |-> "iterative", merging |-> NoMerging, recoverable |-> FALSE,
              compression |-> NoCompression, tailtimeout |-> NoTimeout]
    /\ nitems = 0
    /\ fut = [h \in Handles |-> NoFuture]
    /\ FH = EmptyFH
    /\ pc = "idle"
    /\ merge_size = 0
    /\ merged = None
    /\ caught = NoError
    /\ ret = NoReturn
    /\ run = NoRun

Zero == Acc(Unit(0))

\* exceptions raised by the driver itself; a task's exception is its handle
NotAllAdded == MaxItems + MaxMerges + 1     \* RuntimeError("Not all futures are added.")
PopFromEmpty == MaxItems + MaxMerges + 2    \* KeyError of set.pop()
CancelledError == MaxItems + MaxMerges + 3  \* result() of a cancelled handle

\* future.result(): [exc: what it raises (0: nothing), val: what it returns]
FutureResult(h) ==
    IF fut[h].st = "cancelled" THEN [exc |-> CancelledError, val |-> None]
    ELSE IF fut[h].exc # 0 THEN [exc |-> fut[h].exc, val |-> None]
    ELSE [exc |-> 0, val |-> fut[h].val]

(***************************************************************************)
(* The backend: a submitted task finishes at any time.                     *)
(***************************************************************************)
\* function(item h) returns its output
WorkSucceeds(h) ==
    /\ h \in WorkHandles /\ fut[h].st = "pending"
    /\ fut' = [fut EXCEPT ![h].st = "ok",
                          ![h].val = WrappedOutput(Acc(Unit(h)), cfg.compression)]
    /\ UNCHANGED <<cfg, nitems, FH, pc, merge_size, merged, caught, ret>>
    /\ UNCHANGED otherThanPool

\* function(item h) returns None (the retry driver skipped the file)
WorkSkips(h) ==
    /\ h \in WorkHandles /\ h <= MaxSkipped /\ fut[h].st = "pending"
    /\ fut' = [fut EXCEPT ![h].st = "ok",
                          ![h].val = WrappedOutput(None, cfg.compression)]
    /\ UNCHANGED <<cfg, nitems, FH, pc, merge_size, merged, caught, ret>>
    /\ UNCHANGED otherThanPool

\* function(item h) raises
WorkRaises(h) ==
    /\ h \in WorkHandles /\ fut[h].st = "pending"
    /\ fut' = [fut EXCEPT ![h].st = "failed", ![h].exc = h]
    /\ UNCHANGED <<cfg, nitems, FH, pc, merge_size, merged, caught, ret>>
    /\ UNCHANGED otherThanPool

\* reducer(batch) runs to its end
MergeFinishes(h) ==
    /\ h \in MergeHandles /\ fut[h].st = "pending"
    /\ LET r == _reduce(fut[h].arg, cfg.compression) IN
       fut' = [fut EXCEPT ![h].st = IF r.exc THEN "failed" ELSE "ok",
                          ![h].exc = IF r.exc THEN h ELSE 0,
                          ![h].val = r.val]
    /\ UNCHANGED <<cfg, nitems, FH, pc, merge_size, merged, caught, ret>>
    /\ UNCHANGED otherThanPool

(***************************************************************************)
(* _FuturesHolder                                                          *)
(***************************************************************************)
\* __init__
NewFH(futures) ==
    [futures |-> futures, merges |-> {}, completed |-> {},
     done_futures |-> 0, done_merges |-> 0, running |-> Cardinality(futures)]

\* update, first wait, that does not count what it moves
UpdateFutures_uncounted(fh) ==
    LET completed == {h \in fh.futures : Finished(h)} IN
    [fh EXCEPT !.futures = fh.futures \ completed,
               !.completed = fh.completed \cup completed]

\* update, first wait: the work handles that have finished
UpdateFutures(fh) ==
    LET completed == {h \in fh.futures : Finished(h)} IN
    [fh EXCEPT !.futures = fh.futures \ completed,
               !.completed = fh.completed \cup completed,
               !.done_futures = fh.done_futures + Cardinality(completed)]

\* update, second wait: the merge handles that have finished; then running
UpdateMerges(fh) ==
    LET completed == {h \in fh.merges : Finished(h)} IN
    [fh EXCEPT !.merges = fh.merges \ completed,
               !.completed = fh.completed \cup completed,
               !.done_merges = fh.done_merges + Cardinality(completed),
               !.running = Cardinality(fh.futures)
                           + Cardinality(fh.merges \ completed)]

\* add_merge that forgets to refresh running
add_merge_stale_running(fh, h) == [fh EXCEPT !.merges = fh.merges \cup {h}]

\* add_merge
add_merge(fh, h) ==
    [fh EXCEPT !.merges = fh.merges \cup {h},
               !.running = Cardinality(fh.futures) + Cardinality(fh.merges \cup {h})]

\* fetch(N) pops min(N, len(completed)) handles: the batches it may pop
Batches(fh, N) ==
    {b \in SUBSET fh.completed : Cardinality(b) = Min(N, Cardinality(fh.completed))}

\* fetch that reads the batch without popping it
FetchGood_keeps_batch(fh, batch) == fh

\* fetch, all handles of the batch good: they leave completed
FetchGood(fh, batch) == [fh EXCEPT !.completed = fh.completed \ batch]

\* fetch, some handle bad, that keeps nothing of the batch
FetchBad_drops_batch(fh, batch) == [fh EXCEPT !.completed = fh.completed \ batch]

\* fetch, some handle bad: the good ones go back
FetchBad(fh, batch) ==
    [fh EXCEPT !.completed =
        (fh.completed \ batch) \cup {h \in batch : _good_future(h)}]

\* the exception fetch raises: bad_futures[0].exception()
BadExceptions(batch) ==
    {IF fut[h].st = "cancelled" THEN CancelledError ELSE fut[h].exc :
        h \in {b \in batch : ~_good_future(b)}}

(***************************************************************************)
(* FuturesExecutor.__call__ / ParslExecutor.__call__                       *)
(***************************************************************************)
\* len(items) == 0: the accumulator alone is returned
CallEmpty ==
    /\ pc = "call" /\ nitems = 0
    /\ ret' = [how |-> "bare", acc |-> Zero, err |-> NoError]
    /\ pc' = "returned"
    /\ UNCHANGED <<cfg, nitems, fut, FH, merge_size, merged, caught>>
    /\ UNCHANGED otherThanPool

\* every item is submitted and the _FuturesHolder built
CallSubmit ==
    /\ pc = "call" /\ nitems > 0 /\ cfg.kind \in {"futures", "parsl"}
    /\ fut' = [h \in Handles |-> IF h \in 1..nitems THEN Submitted(<<>>) ELSE fut[h]]
    /\ FH' = NewFH(1..nitems)
    /\ pc' = "upd_f"
    /\ UNCHANGED <<cfg, nitems, merge_size, merged, caught, ret>>
    /\ UNCHANGED otherThanPool

\* IterativeExecutor.__call__ on a non-empty list: function is called on the
\* items in turn, its results accumulated onto the accumulator; what function
\* does on each item (returns its output, returns None, raises) is `outs`
IterativeResult(outs) ==
    LET raising == {i \in 1..Len(outs) : outs[i] = "raise"}
        outputs == [i \in 1..Len(outs) |->
                        IF outs[i] = "ok" THEN Acc(Unit(i)) ELSE None]
    IN IF raising # {}
       THEN [how |-> "raised", acc |-> None,
             err |-> CHOOSE i \in raising : \A j \in raising : i <= j]
       ELSE [how |-> "pair", acc |-> accumulate(outputs, Zero), err |-> NoError]

IterativeRun ==
    /\ pc = "call" /\ nitems > 0 /\ cfg.kind = "iterative"
    /\ \E outs \in [1..nitems -> {"ok", "skip", "raise"}] :
          /\ ret' = IterativeResult(outs)
          /\ pc' = IF ret'.how = "raised" THEN "raised" ELSE "returned"
    /\ UNCHANGED <<cfg, nitems, fut, FH, merge_size, merged, caught>>
    /\ UNCHANGED otherThanPool

\* `while FH.running > 0`
LoopTest(fh) == IF fh.running > 0 THEN "upd_f" ELSE "exit"

(***************************************************************************)
(* _watcher                                                                *)
(***************************************************************************)
WatcherUpdateFutures ==
    /\ pc = "upd_f"
    /\ FH' = UpdateFutures(FH)
    /\ pc' = "upd_m"
    /\ UNCHANGED <<cfg, nitems, fut, merge_size, merged, caught, ret>>
    /\ UNCHANGED otherThanPool

WatcherUpdateMerges ==
    /\ pc = "upd_m"
    /\ FH' = UpdateMerges(FH)
    /\ IF Merging
       THEN /\ merge_size' = _merge_size(Cardinality(FH'.completed))
            /\ pc' = "inner"
       ELSE /\ merge_size' = merge_size
            /\ pc' = "local"
    /\ UNCHANGED <<cfg, nitems, fut, merged, caught, ret>>
    /\ UNCHANGED otherThanPool

\* `while len(FH.completed) > 1` is over
InnerDone ==
    /\ pc = "inner"
    /\ Cardinality(FH.completed) <= 1
    /\ pc' = LoopTest(FH)
    /\ UNCHANGED <<cfg, nitems, fut, FH, merge_size, merged, caught, ret>>
    /\ UNCHANGED otherThanPool

\* `if FH.running > 0 and len(FH.completed) < executor.merging[1]: break`
InnerDefer ==
    /\ pc = "inner"
    /\ Cardinality(FH.completed) > 1
    /\ FH.running > 0 /\ Cardinality(FH.completed) < cfg.merging[2]
    /\ pc' = LoopTest(FH)
    /\ UNCHANGED <<cfg, nitems, fut, FH, merge_size, merged, caught, ret>>
    /\ UNCHANGED otherThanPool

\* the inner loop without its `break`
MayFetch_eager ==
    /\ pc = "inner"
    /\ Cardinality(FH.completed) > 1

MayFetch ==
    /\ pc = "inner"
    /\ Cardinality(FH.completed) > 1
    /\ ~(FH.running > 0 /\ Cardinality(FH.completed) < cfg.merging[2])

FreeMergeHandles == {h \in MergeHandles : fut[h].st = "none"}

\* a batch is fetched and reducer(batch) submitted
InnerSubmit ==
    /\ MayFetch
    /\ FreeMergeHandles # {}
    /\ \E batch \in Batches(FH, merge_size) :
          /\ \A h \in batch : _good_future(h)
          /\ LET m == CHOOSE x \in FreeMergeHandles :
                          \A y \in FreeMergeHandles : x <= y
             IN /\ fut' = [fut EXCEPT ![m] = Submitted(Results(batch))]
                /\ FH' = add_merge(FetchGood(FH, batch), m)
    /\ UNCHANGED <<cfg, nitems, pc, merge_size, merged, caught, ret>>
    /\ UNCHANGED otherThanPool

\* the batch holds a bad handle: fetch raises
InnerFetchRaises ==
    /\ MayFetch
    /\ \E batch \in Batches(FH, merge_size) :
          /\ \E h \in batch : ~_good_future(h)
          /\ FH' = FetchBad(FH, batch)
          /\ caught' \in BadExceptions(batch)
    /\ pc' = "except"
    /\ UNCHANGED <<cfg, nitems, fut, merge_size, merged, ret>>
    /\ UNCHANGED otherThanPool

\* merging=False: everything completed is merged in the driver
LocalMerge ==
    /\ pc = "local"
    /\ LET batch == FH.completed IN
       /\ \A h \in batch : _good_future(h)
       /\ FH' = FetchGood(FH, batch)
       /\ merged' = _compress(
                        accumulate(MapDecompress(Results(batch)), _decompress(merged)),
                        cfg.compression)
       /\ pc' = LoopTest(FH)
    /\ UNCHANGED <<cfg, nitems, fut, merge_size, caught, ret>>
    /\ UNCHANGED otherThanPool

LocalFetchRaises ==
    /\ pc = "local"
    /\ LET batch == FH.completed IN
       /\ \E h \in batch : ~_good_future(h)
       /\ FH' = FetchBad(FH, batch)
       /\ caught' \in BadExceptions(batch)
    /\ pc' = "except"
    /\ UNCHANGED <<cfg, nitems, fut, merge_size, merged, ret>>
    /\ UNCHANGED otherThanPool

\* _watcher raises exc and __call__ catches nothing
WatcherRaises_forgets(exc, fh) ==
    /\ caught' = NoError
    /\ FH' = fh
    /\ pc' = "except"
    /\ UNCHANGED <<merged, ret>>

\* _watcher raises exc with the holder left as fh
WatcherRaises(exc, fh) ==
    /\ caught' = exc
    /\ FH' = fh
    /\ pc' = "except"
    /\ UNCHANGED <<merged, ret>>

\* the check that nothing is left, `return merged`, and __call__'s
\* `return accumulate([_decompress(merged), accumulator]), 0`
WatcherReturns(m, fh) ==
    IF fh.completed # {} \/ fh.futures # {} \/ fh.merges # {}
    THEN WatcherRaises(NotAllAdded, fh)
    ELSE /\ merged' = m
         /\ FH' = fh
         /\ ret' = [how |-> "pair",
                    acc |-> accumulate(<<_decompress(m), Zero>>, None),
                    err |-> NoError]
         /\ pc' = "returned"
         /\ UNCHANGED caught

\* after the loop: `merged = FH.completed.pop().result()` when merging
WatcherExit ==
    /\ pc = "exit"
    /\ IF Merging
       THEN IF FH.completed = {}
            THEN WatcherRaises(PopFromEmpty, FH)
            ELSE \E h \in FH.completed :
                    LET fh == [FH EXCEPT !.completed = FH.completed \ {h}]
                        r == FutureResult(h)
                    IN IF r.exc # 0 THEN WatcherRaises(r.exc, fh)
                       ELSE WatcherReturns(r.val, fh)
       ELSE WatcherReturns(merged, FH)
    /\ UNCHANGED <<cfg, nitems, fut, merge_size>>
    /\ UNCHANGED otherThanPool

(***************************************************************************)
(* __call__'s `except Exception as e`                                      *)
(***************************************************************************)
\* not recoverable: `raise e from None`
ExceptReraise ==
    /\ pc = "except" /\ ~cfg.recoverable
    /\ ret' = [how |-> "raised", acc |-> None, err |-> caught]
    /\ pc' = "raised"
    /\ UNCHANGED <<cfg, nitems, fut, FH, merge_size, merged, caught>>
    /\ UNCHANGED otherThanPool

\* recoverable FuturesExecutor: `for job in FH.futures: job.cancel()`; cancel
\* takes effect on the jobs that have not started, here any of the unfinished
ExceptCancel ==
    /\ pc = "except" /\ cfg.recoverable /\ cfg.kind = "futures"
    /\ \E notstarted \in SUBSET {h \in FH.futures : fut[h].st = "pending"} :
          fut' = [h \in Handles |->
                    IF h \in notstarted THEN [fut[h] EXCEPT !.st = "cancelled"]
                    ELSE fut[h]]
    /\ pc' = IF Merging /\ FH.merges # {} THEN "wfm_f" ELSE "fin_f"
    /\ UNCHANGED <<cfg, nitems, FH, merge_size, merged, caught, ret>>
    /\ UNCHANGED otherThanPool

\* recoverable ParslExecutor: nothing is cancelled
ExceptNoCancel ==
    /\ pc = "except" /\ cfg.recoverable /\ cfg.kind = "parsl"
    /\ pc' = IF Merging /\ FH.merges # {} THEN "wfm_f" ELSE "fin_f"
    /\ UNCHANGED <<cfg, nitems, fut, FH, merge_size, merged, caught, ret>>
    /\ UNCHANGED otherThanPool

(***************************************************************************)
(* _wait_for_merges                                                        *)
(***************************************************************************)
\* `while len(FH.merges) > 0: FH.update()`, and the FH.update() after it
WaitUpdateFutures ==
    /\ pc \in {"wfm_f", "fin_f"}
    /\ FH' = UpdateFutures(FH)
    /\ pc' = IF pc = "wfm_f" THEN "wfm_m" ELSE "fin_m"
    /\ UNCHANGED <<cfg, nitems, fut, merge_size, merged, caught, ret>>
    /\ UNCHANGED otherThanPool

WaitUpdateMerges ==
    /\ pc \in {"wfm_m", "fin_m"}
    /\ FH' = UpdateMerges(FH)
    /\ pc' = IF pc = "fin_m" THEN "recover"
             ELSE IF FH'.merges # {} THEN "wfm_f" ELSE "fin_f"
    /\ UNCHANGED <<cfg, nitems, fut, merge_size, merged, caught, ret>>
    /\ UNCHANGED otherThanPool

\* what _wait_for_merges returns: the good handles of completed, merged
Recovered(fh, compression) ==
    _compress(
        accumulate(MapDecompress(Results({h \in fh.completed : _good_future(h)})), None),
        compression)

\* `return accumulate([_decompress(merged), accumulator]), e`
Recover ==
    /\ pc = "recover"
    /\ ret' = [how |-> "pair",
               acc |-> accumulate(
                          <<_decompress(Recovered(FH, cfg.compression)), Zero>>, None),
               err |-> caught]
    /\ pc' = "returned"
    /\ UNCHANGED <<cfg, nitems, fut, FH, merge_size, merged, caught>>
    /\ UNCHANGED otherThanPool

(***************************************************************************)
(* Runner.run from the return of `executor(chunks, closure, None)` on.     *)
(* The items of the call are the chunks, and run gives None where the      *)
(* model's call has its zero.                                              *)
(***************************************************************************)
NoChunksError == MaxItems + MaxMerges + 4   \* ValueError("No chunks returned results")
UnpackError == MaxItems + MaxMerges + 5     \* TypeError of `wrapped_out, e = None`

\* what the executor returns to run, which passed None for the accumulator
WithoutZero(acc) ==
    IF acc.kind # "acc" THEN acc
    ELSE IF \A sl \in Slots \ {0} : acc.cnt[sl] = 0 THEN None
    ELSE Acc([sl \in Slots |-> IF sl = 0 THEN 0 ELSE acc.cnt[sl]])

\* wrapped_out["processed"]: the union of the {item} of the merged results
Processed(out) == {i \in WorkHandles : out.cnt[i] > 0}

\* `wrapped_out, e = executor(chunks, closure, None)` and what follows: the
\* executor's exception goes through; a bare None cannot be unpacked; a None
\* wrapped_out raises ValueError; else postprocess is called and
\* wrapped_out returned with the exception in it
RunEnds(r) ==
    IF r.how = "raised"
    THEN [how |-> "raised", out |-> None, err |-> r.err, postprocessed |-> FALSE]
    ELSE IF r.how = "bare"
    THEN [how |-> "raised", out |-> None, err |-> UnpackError, postprocessed |-> FALSE]
    ELSE IF WithoutZero(r.acc) = None
    THEN [how |-> "raised", out |-> None, err |-> NoChunksError,
          postprocessed |-> FALSE]
    ELSE [how |-> "returned", out |-> WithoutZero(r.acc), err |-> r.err,
          postprocessed |-> TRUE]

RunFinish ==
    /\ pc \in {"returned", "raised"}
    /\ run = NoRun
    /\ run' = RunEnds(ret)
    /\ UNCHANGED otherThanRun

\* the backend's steps
BackendNext ==
    \/ \E h \in WorkHandles : WorkSucceeds(h)
    \/ \E h \in WorkHandles : WorkSkips(h)
    \/ \E h \in WorkHandles : WorkRaises(h)
    \/ \E h \in MergeHandles : MergeFinishes(h)

\* the driver's steps
DriverNext ==
    \/ CallEmpty
    \/ CallSubmit
    \/ IterativeRun
    \/ WatcherUpdateFutures
    \/ WatcherUpdateMerges
    \/ InnerDone
    \/ InnerDefer
    \/ InnerSubmit
    \/ InnerFetchRaises
    \/ LocalMerge
    \/ LocalFetchRaises
    \/ WatcherExit
    \/ ExceptReraise
    \/ ExceptCancel
    \/ ExceptNoCancel
    \/ WaitUpdateFutures
    \/ WaitUpdateMerges
    \/ Recover

PoolNext == BackendNext \/ DriverNext

(***************************************************************************)
(* FileMeta.chunks                                                         *)
(***************************************************************************)
\* Python's round(a / b) for integers a >= 0, b # 0: to the nearest integer,
\* a tie to the even one
round(a, b) ==
    LET n == IF b < 0 THEN -a ELSE a
        d == IF b < 0 THEN -b ELSE b
        q == n \div d
        r == n % d
    IN IF 2 * r < d THEN q
       ELSE IF 2 * r > d THEN q + 1
       ELSE IF q % 2 = 0 THEN q ELSE q + 1

\* math.ceil(a / n) for integers a >= 0, n >= 1
ceil(a, n) == (a + n - 1) \div n

Last(s) == s[Len(s)]

\* the sorted list of a set of integers
RECURSIVE Sorted(_)
Sorted(S) ==
    IF S = {} THEN <<>>
    ELSE LET m == CHOOSE x \in S : \A y \in S : x <= y
         IN <<m>> \o Sorted(S \ {m})

\* tree.common_entry_offsets() of a tree of N entries: from 0 to N, increasing
ClusterLists(N) == {Sorted(S \cup {0, N}) : S \in SUBSET (1..(N - 1))}

NoClusters == <<>>    \* the metadata has no "clusters"

_PROTECTED_NAMES ==
    {"dataset", "filename", "treename", "metadata", "entrystart", "entrystop",
     "fileuuid", "numentries", "uuid", "clusters"}

\* metadata that is None, or holds neither numentries nor uuid
NoMeta == [numentries |-> -1, clusters |-> NoClusters]

\* a metadata dict is a function from its keys; as the record that
\* FileMeta.populated and FileMeta.chunks read
AsMeta(d) ==
    IF d = None THEN NoMeta
    ELSE IF "numentries" \notin DOMAIN d \/ "uuid" \notin DOMAIN d THEN NoMeta
    ELSE [numentries |-> d["numentries"],
          clusters |-> IF "clusters" \in DOMAIN d THEN d["clusters"] ELSE NoClusters]

\* FileMeta.populated
populated(metadata, clusters) ==
    /\ metadata # NoMeta
    /\ ~(clusters /\ metadata.clusters = NoClusters)

\* the aligned boundaries: `for c in clusters: if c >= chunks[-1] + target: append`
RECURSIVE GreedyBoundaries(_, _, _)
GreedyBoundaries(clusters, target, bounds) ==
    IF clusters = <<>> THEN bounds
    ELSE GreedyBoundaries(
            Tail(clusters), target,
            IF Head(clusters) >= Last(bounds) + target
            THEN Append(bounds, Head(clusters)) ELSE bounds)

\* the boundaries without the closing one
AlignedBoundaries_no_tail(clusters, target) ==
    GreedyBoundaries(clusters, target, <<0>>)

\* boundaries at the multiples of target, whatever the offsets
AlignedBoundaries_even(clusters, target) ==
    [k \in 1..(ceil(Last(clusters), target) + 1) |->
        Min((k - 1) * target, Last(clusters))]

\* every offset a boundary
AlignedBoundaries_every(clusters, target) == clusters

\* ... and `if clusters[-1] != chunks[-1]: chunks.append(clusters[-1])`
AlignedBoundaries(clusters, target) ==
    LET b == GreedyBoundaries(clusters, target, <<0>>)
    IN IF Last(clusters) # Last(b) THEN Append(b, Last(clusters)) ELSE b

ChunksInit ==
    /\ align_clusters \in BOOLEAN
    /\ meta \in UNION {
            {[numentries |-> N, clusters |-> c] :
                c \in IF align_clusters THEN ClusterLists(N) ELSE {NoClusters}} :
            N \in 0..MaxEntries}
    /\ target_chunksize \in 1..MaxTarget
    /\ update = TRUE
    /\ start = 0
    /\ actual_chunksize = 0
    /\ chunks = <<>>
    /\ gen = "new"
    /\ emitted = <<>>
    /\ sent = 0
    /\ resized = FALSE

ChunksIdle ==
    /\ align_clusters = FALSE
    /\ meta = [numentries |-> 0, clusters |-> NoClusters]
    /\ target_chunksize = 1
    /\ update = TRUE
    /\ start = 0
    /\ actual_chunksize = 0
    /\ chunks = <<>>
    /\ gen = "idle"
    /\ emitted = <<>>
    /\ sent = 0
    /\ resized = FALSE

\* aligned mode: the k-th pair of zip(chunks[:-1], chunks[1:]) is yielded, or
\* the generator returns
YieldAligned(bounds, k) ==
    IF k < Len(bounds)
    THEN /\ emitted' = Append(emitted, <<bounds[k], bounds[k + 1]>>)
         /\ gen' = "yielded"
    ELSE /\ emitted' = emitted
         /\ gen' = "returned"

\* the turn with n taken by integer division in place of round
YieldUnaligned_floor(s, upd, target) ==
    IF s < meta.numentries
    THEN LET n == Max((meta.numentries - s) \div target, 1)
             actual == IF upd THEN ceil(meta.numentries - s, n) ELSE actual_chunksize
             stop == Min(meta.numentries, s + actual)
         IN /\ actual_chunksize' = actual
            /\ emitted' = Append(emitted, <<s, stop>>)
            /\ gen' = "yielded"
    ELSE /\ actual_chunksize' = actual_chunksize
         /\ emitted' = emitted
         /\ gen' = "returned"

\* the turn with a ratio ending in .5 rounded up
YieldUnaligned_half_up(s, upd, target) ==
    IF s < meta.numentries
    THEN LET n == Max((2 * (meta.numentries - s) + target) \div (2 * target), 1)
             actual == IF upd THEN ceil(meta.numentries - s, n) ELSE actual_chunksize
             stop == Min(meta.numentries, s + actual)
         IN /\ actual_chunksize' = actual
            /\ emitted' = Append(emitted, <<s, stop>>)
            /\ gen' = "yielded"
    ELSE /\ actual_chunksize' = actual_chunksize
         /\ emitted' = emitted
         /\ gen' = "returned"

\* the turn with n and actual_chunksize computed on the first turn only
YieldUnaligned_stale(s, upd, target) ==
    IF s < meta.numentries
    THEN LET n == Max(round(meta.numentries - s, target), 1)
             actual == IF s = 0 THEN ceil(meta.numentries - s, n) ELSE actual_chunksize
             stop == Min(meta.numentries, s + actual)
         IN /\ actual_chunksize' = actual
            /\ emitted' = Append(emitted, <<s, stop>>)
            /\ gen' = "yielded"
    ELSE /\ actual_chunksize' = actual_chunksize
         /\ emitted' = emitted
         /\ gen' = "returned"

\* unaligned mode: one turn of `while start < numentries` up to its yield, with
\* the locals as given
YieldUnaligned(s, upd, target) ==
    IF s < meta.numentries
    THEN LET n == Max(round(meta.numentries - s, target), 1)
             actual == IF upd THEN ceil(meta.numentries - s, n) ELSE actual_chunksize
             stop == Min(meta.numentries, s + actual)
         IN /\ actual_chunksize' = actual
            /\ emitted' = Append(emitted, <<s, stop>>)
            /\ gen' = "yielded"
    ELSE /\ actual_chunksize' = actual_chunksize
         /\ emitted' = emitted
         /\ gen' = "returned"

\* the consumer's first next(), aligned mode
ChunksFirstAligned ==
    /\ gen = "new" /\ align_clusters
    /\ populated(meta, align_clusters)
    /\ chunks' = AlignedBoundaries(meta.clusters, target_chunksize)
    /\ YieldAligned(chunks', 1)
    /\ UNCHANGED <<meta, align_clusters, target_chunksize, update, start,
                   actual_chunksize, sent, resized>>
    /\ UNCHANGED otherThanChunks

\* the consumer's first next(), unaligned mode
ChunksFirstUnaligned ==
    /\ gen = "new" /\ ~align_clusters
    /\ populated(meta, align_clusters)
    /\ update' = TRUE
    /\ start' = 0
    /\ YieldUnaligned(0, TRUE, target_chunksize)
    /\ UNCHANGED <<meta, align_clusters, target_chunksize, chunks, sent, resized>>
    /\ UNCHANGED otherThanChunks

\* the consumer's next() or send(v), aligned mode: what is sent is dropped
ChunksNextAligned(v) ==
    /\ gen = "yielded" /\ align_clusters
    /\ sent' = v
    /\ YieldAligned(chunks, Len(emitted) + 1)
    /\ UNCHANGED <<meta, align_clusters, target_chunksize, update, start,
                   actual_chunksize, chunks, resized>>
    /\ UNCHANGED otherThanChunks

\* the consumer's next() (v = 0) or send(v), unaligned mode
ChunksSendUnaligned(v) ==
    /\ gen = "yielded" /\ ~align_clusters
    /\ sent' = v
    /\ start' = Last(emitted)[2]
    /\ IF v # 0 /\ v # target_chunksize
       THEN /\ target_chunksize' = v
            /\ update' = TRUE
            /\ resized' = TRUE
       ELSE /\ target_chunksize' = target_chunksize
            /\ update' = FALSE
            /\ resized' = resized
    /\ YieldUnaligned(start', update', target_chunksize')
    /\ UNCHANGED <<meta, align_clusters, chunks>>
    /\ UNCHANGED otherThanChunks

\* what a consumer may send: nothing (0) or a target
Feedback == 0..MaxTarget

ChunksNext ==
    \/ ChunksFirstAligned
    \/ ChunksFirstUnaligned
    \/ \E v \in Feedback : ChunksNextAligned(v)
    \/ \E v \in Feedback : ChunksSendUnaligned(v)

(***************************************************************************)
(* Runner.automatic_retries                                                *)
(***************************************************************************)
\* what the driver reads of an exception's chain: an OSError or
\* UprootMissTreeError in it, one of the three timeout messages in it,
\* "Auth failed" in it
Exceptions == [oserror : BOOLEAN, timeout : BOOLEAN, auth : BOOLEAN]
NoException == [oserror |-> FALSE, timeout |-> FALSE, auth |-> FALSE]

RetryInit ==
    /\ retries \in 0..MaxRetries
    /\ skipbadfiles \in BOOLEAN
    /\ fails_first \in 0..(MaxRetries + 1)
    /\ retry_count = 0
    /\ calls = 0
    /\ raised = NoException
    /\ outcome = "running"

RetryIdle ==
    /\ retries = 0
    /\ skipbadfiles = FALSE
    /\ fails_first = 0
    /\ retry_count = 0
    /\ calls = 0
    /\ raised = NoException
    /\ outcome = "idle"

\* `while retry_count <= retries`
InLoop == outcome = "running" /\ retry_count <= retries

\* the `except` block with the "Auth failed" test put first
Handler_auth_first(e) ==
    IF e.auth THEN "raised"
    ELSE IF skipbadfiles /\ e.oserror THEN "None"
    ELSE IF skipbadfiles /\ retries = retry_count /\ e.timeout THEN "None"
    ELSE IF ~skipbadfiles \/ retries = retry_count THEN "raised"
    ELSE "again"

\* the `except` block with the timeout messages skipped on any attempt
Handler_timeout_any(e) ==
    IF skipbadfiles /\ e.oserror THEN "None"
    ELSE IF skipbadfiles /\ e.timeout THEN "None"
    ELSE IF ~skipbadfiles \/ e.auth \/ retries = retry_count THEN "raised"
    ELSE "again"

\* the `except` block on exception e: "None" (break), "raised" (raise e) or
\* "again" (the warning, then retry_count += 1)
Handler(e) ==
    IF skipbadfiles /\ e.oserror THEN "None"
    ELSE IF skipbadfiles /\ retries = retry_count /\ e.timeout THEN "None"
    ELSE IF ~skipbadfiles \/ e.auth \/ retries = retry_count THEN "raised"
    ELSE "again"

\* a count that stays as it is
Stuck(c) == c

\* `retry_count += 1`
Incremented(c) == c + 1

\* func returns: `return func(*args, **kwargs)`
AttemptReturns ==
    /\ InLoop
    /\ calls >= fails_first
    /\ calls' = calls + 1
    /\ outcome' = "result"
    /\ UNCHANGED <<retries, skipbadfiles, fails_first, retry_count, raised>>
    /\ UNCHANGED otherThanRetry

\* func raises e
AttemptRaises(e) ==
    /\ InLoop
    /\ calls < fails_first
    /\ calls' = calls + 1
    /\ raised' = e
    /\ IF Handler(e) = "again"
       THEN /\ retry_count' = Incremented(retry_count)
            /\ outcome' = IF retry_count' <= retries THEN "running" ELSE "None"
       ELSE /\ retry_count' = retry_count
            /\ outcome' = Handler(e)
    /\ UNCHANGED <<retries, skipbadfiles, fails_first>>
    /\ UNCHANGED otherThanRetry

RetryNext ==
    \/ AttemptReturns
    \/ \E e \in Exceptions : AttemptRaises(e)

(***************************************************************************)
(* DaskExecutor.__call__ (use_dataframes off)                              *)
(***************************************************************************)
DaskInit ==
    /\ dask \in [treereduction : 1..MaxTree, compression : {NoCompression, 1}]
    /\ ditems \in 0..MaxDaskItems
    /\ does \in [1..ditems -> {"ok", "skip", "raise"}]
    /\ work = <<>>
    /\ rounds = 0
    /\ dpc = "call"
    /\ dret = NoReturn

DaskIdle ==
    /\ dask = [treereduction |-> 1, compression |-> NoCompression]
    /\ ditems = 0
    /\ does = <<>>
    /\ work = <<>>
    /\ rounds = 0
    /\ dpc = "idle"
    /\ dret = NoReturn

\* a handle of the cluster, by what its result() will give: the exception
\* raised (0: none) or the value returned
\* client.map(function, items)
WorkFutures ==
    [i \in 1..ditems |->
        IF does[i] = "raise" THEN [exc |-> i, val |-> None]
        ELSE [exc |-> 0,
              val |-> WrappedOutput(IF does[i] = "ok" THEN Acc(Unit(i)) ELSE None,
                                    dask.compression)]]

ReducerError == MaxDaskItems + 1    \* ValueError("Empty list provided to reduction")

\* client.submit(reducer, slice): a failed input fails the task, else _reduce
ReduceFuture(slice) ==
    LET failed == {k \in 1..Len(slice) : slice[k].exc # 0} IN
    IF failed # {}
    THEN [exc |-> slice[CHOOSE k \in failed : \A j \in failed : k <= j].exc,
          val |-> None]
    ELSE LET r == _reduce([k \in 1..Len(slice) |-> slice[k].val], dask.compression)
         IN IF r.exc THEN [exc |-> ReducerError, val |-> None]
            ELSE [exc |-> 0, val |-> r.val]

\* the full slices only
Slices_drops_tail(w, B) ==
    [j \in 1..(Len(w) \div B) |-> SubSeq(w, (j - 1) * B + 1, j * B)]

\* [work[i : i + treereduction] for i in range(0, len(work), treereduction)]
Slices(w, B) ==
    [j \in 1..ceil(Len(w), B) |-> SubSeq(w, (j - 1) * B + 1, Min(j * B, Len(w)))]

DaskCallEmpty ==
    /\ dpc = "call" /\ ditems = 0
    /\ dret' = [how |-> "bare", acc |-> Zero, err |-> NoError]
    /\ dpc' = "returned"
    /\ UNCHANGED <<dask, ditems, does, work, rounds>>
    /\ UNCHANGED otherThanDask

DaskMap ==
    /\ dpc = "call" /\ ditems > 0
    /\ work' = WorkFutures
    /\ dpc' = "reduce"
    /\ UNCHANGED <<dask, ditems, does, rounds, dret>>
    /\ UNCHANGED otherThanDask

\* one turn of `while len(work) > 1`
DaskReduceRound ==
    /\ dpc = "reduce" /\ Len(work) > 1
    /\ rounds < MaxRounds
    /\ LET s == Slices(work, dask.treereduction)
       IN work' = [j \in 1..Len(s) |-> ReduceFuture(s[j])]
    /\ rounds' = rounds + 1
    /\ UNCHANGED <<dask, ditems, does, dpc, dret>>
    /\ UNCHANGED otherThanDask

\* `work = work[0]` and the return of accumulate([result], accumulator), 0
DaskResult ==
    /\ dpc = "reduce" /\ Len(work) = 1
    /\ IF work[1].exc # 0
       THEN /\ dret' = [how |-> "raised", acc |-> None, err |-> work[1].exc]
            /\ dpc' = "raised"
       ELSE /\ dret' = [how |-> "pair",
                        acc |-> accumulate(
                                   <<IF dask.compression = NoCompression
                                     THEN work[1].val
                                     ELSE _decompress(work[1].val)>>, Zero),
                        err |-> NoError]
            /\ dpc' = "returned"
    /\ UNCHANGED <<dask, ditems, does, work, rounds>>
    /\ UNCHANGED otherThanDask

DaskNext ==
    \/ DaskCallEmpty
    \/ DaskMap
    \/ DaskReduceRound
    \/ DaskResult

(***************************************************************************)
(* Runner._normalize_fileset.  A fileset is the list of its items, one per *)
(* dataset, in the order of the mapping; the value of an item is a list of *)
(* filenames ("list"), a dict ("dict") that may have "treename" and        *)
(* "metadata" and whose "files" is a list, a dict {filename: treename} or  *)
(* missing, or something else ("other").                                   *)
(***************************************************************************)
NoTree == "None"     \* treename is None, or the dict has no "treename"

ListEntry(dataset, names) ==
    [dataset |-> dataset, type |-> "list", treename |-> NoTree, metadata |-> None,
     files_type |-> "list", names |-> names, trees |-> <<>>]

DictEntry(dataset, treename, metadata, files_type, names, trees) ==
    [dataset |-> dataset, type |-> "dict", treename |-> treename,
     metadata |-> metadata, files_type |-> files_type, names |-> names,
     trees |-> trees]

OtherEntry(dataset) ==
    [dataset |-> dataset, type |-> "other", treename |-> NoTree, metadata |-> None,
     files_type |-> "missing", names |-> <<>>, trees |-> <<>>]

\* FileMeta(dataset, filename, treename, user_meta) for every file of an item
FileMetas(e, trees) ==
    [i \in 1..Len(e.names) |->
        [dataset |-> e.dataset, filename |-> e.names[i], treename |-> trees[i],
         metadata |-> e.metadata]]

\* the tree name of each file of an item, local_treename being None or not
FileTrees_map_first(e, local_treename) ==
    [i \in 1..Len(e.names) |->
        IF e.files_type = "dict" THEN e.trees[i] ELSE local_treename]

FileTrees(e, local_treename) ==
    [i \in 1..Len(e.names) |->
        IF local_treename = NoTree THEN e.trees[i] ELSE local_treename]

\* one turn of `for dataset, filelist in fileset.items()`: it raises, or
\* yields the FileMetas of the dataset
NormalizeEntry(e, treename) ==
    LET raises == [exc |-> TRUE, val |-> <<>>] IN
    IF e.type = "dict"
    THEN IF e.metadata # None /\ (DOMAIN e.metadata) \cap _PROTECTED_NAMES # {}
         THEN raises
         ELSE IF e.files_type = "missing" THEN raises
         ELSE IF e.treename = NoTree /\ treename = NoTree /\ e.files_type # "dict"
         THEN raises
         ELSE LET local_treename == IF e.treename # NoTree THEN e.treename ELSE treename
              IN [exc |-> FALSE, val |-> FileMetas(e, FileTrees(e, local_treename))]
    ELSE IF e.type = "list"
    THEN IF treename = NoTree THEN raises
         ELSE [exc |-> FALSE, val |-> FileMetas(e, FileTrees(e, treename))]
    ELSE raises

\* normalization that stops at the first item that raises and keeps what
\* came before
RECURSIVE _normalize_fileset_lenient(_, _)
_normalize_fileset_lenient(items, treename) ==
    IF items = <<>> THEN [exc |-> FALSE, val |-> <<>>]
    ELSE LET head == NormalizeEntry(Head(items), treename)
         IN IF head.exc THEN [exc |-> FALSE, val |-> <<>>]
            ELSE LET rest == _normalize_fileset_lenient(Tail(items), treename)
                 IN [exc |-> FALSE, val |-> head.val \o rest.val]

\* list(self._normalize_fileset(fileset, treename)): the FileMetas of all
\* datasets, or the exception the generator raised on the way
RECURSIVE _normalize_fileset(_, _)
_normalize_fileset(items, treename) ==
    IF items = <<>> THEN [exc |-> FALSE, val |-> <<>>]
    ELSE LET head == NormalizeEntry(Head(items), treename)
         IN IF head.exc THEN [exc |-> TRUE, val |-> <<>>]
            ELSE LET rest == _normalize_fileset(Tail(items), treename)
                 IN IF rest.exc THEN [exc |-> TRUE, val |-> <<>>]
                    ELSE [exc |-> FALSE, val |-> head.val \o rest.val]

NoInput == [fileset |-> <<>>, treename |-> NoTree]
NotListed == [exc |-> FALSE, val |-> <<>>]

DefaultCacheSize == 100000    \* DEFAULT_METADATA_CACHE = LRUCache(100000)

(***************************************************************************)
(* Runner.preprocess with _preprocess_fileset_root and _filter_badfiles.   *)
(* The pre_executor is an IterativeExecutor or a DaskExecutor; the probe   *)
(* of a file is metadata_fetcher_root wrapped in automatic_retries.        *)
(***************************************************************************)
Files == 1..MaxFiles

\* what metadata_fetcher_root returns for a file of one entry
Fetched(with_clusters) ==
    [numentries |-> 1, clusters |-> IF with_clusters THEN <<0, 1>> ELSE NoClusters]

\* the exception a probe of an unreadable file raises: an OSError
ReadError == [oserror |-> TRUE, timeout |-> FALSE, auth |-> FALSE]

NoOut == [how |-> "none", acc |-> None, err |-> NoError]

PreExecutors ==
    [kind : {"iterative"}, treereduction : {1}]
    \cup [kind : {"dask"}, treereduction : 1..MaxTree]

RunnerInit ==
    /\ badfiles \in SUBSET Files
    /\ metadata_cache = [f \in Files |-> NoMeta]
    /\ lru = [maxsize |-> DefaultCacheSize, order |-> <<>>]
    /\ runner \in [align_clusters : {FALSE}, pre_executor : PreExecutors]
    /\ fileset = {}
    /\ filemeta = [f \in Files |-> NoMeta]
    /\ to_get = {}
    /\ pre_out = NoOut
    /\ final_fileset = {}
    /\ probes = [f \in Files |-> 0]
    /\ nruns = 0
    /\ rpc = "ready"
    /\ given = NoInput
    /\ listed = NotListed

RunnerIdle ==
    /\ badfiles = {}
    /\ metadata_cache = [f \in Files |-> NoMeta]
    /\ lru = [maxsize |-> DefaultCacheSize, order |-> <<>>]
    /\ runner = [align_clusters |-> FALSE,
                 pre_executor |-> [kind |-> "iterative", treereduction |-> 1]]
    /\ fileset = {}
    /\ filemeta = [f \in Files |-> NoMeta]
    /\ to_get = {}
    /\ pre_out = NoOut
    /\ final_fileset = {}
    /\ probes = [f \in Files |-> 0]
    /\ nruns = 0
    /\ rpc = "idle"
    /\ given = NoInput
    /\ listed = NotListed

\* the calls of preprocess: a list of files or a dict with user metadata that
\* normalise, and filesets that do not: a reserved key in the metadata of the
\* first or of the last dataset, a last dataset that is neither list nor
\* dict, a list or a dict of plain filenames with no treename at all, a dict
\* without "files"
RunnerInputs ==
    {[fileset |-> <<ListEntry("A", ListOf(S))>>, treename |-> "Events"] :
        S \in SUBSET Files \ {{}}}
    \cup {[fileset |-> <<DictEntry("A", NoTree, [a |-> 1], "list", ListOf(Files), <<>>)>>,
           treename |-> "Events"],
          [fileset |-> <<DictEntry("A", "Events", [uuid |-> 1], "list", <<1>>, <<>>),
                         ListEntry("B", <<2>>)>>,
           treename |-> NoTree],
          [fileset |-> <<ListEntry("A", <<1>>),
                         DictEntry("B", "Events", [dataset |-> 1], "list", <<2>>, <<>>)>>,
           treename |-> "Events"],
          [fileset |-> <<ListEntry("A", <<1>>), OtherEntry("B")>>,
           treename |-> "Events"],
          [fileset |-> <<ListEntry("A", <<1>>)>>, treename |-> NoTree],
          [fileset |-> <<DictEntry("A", "Events", None, "list", <<1>>, <<>>),
                         DictEntry("B", NoTree, None, "list", <<2>>, <<>>)>>,
           treename |-> NoTree],
          [fileset |-> <<ListEntry("A", <<1>>),
                         DictEntry("B", NoTree, None, "missing", <<>>, <<>>)>>,
           treename |-> "Events"]}

\* a Runner whose metadata_cache is an LRUCache with fewer places than there
\* are files, all of them readable
RunnerSmallCacheInit ==
    /\ badfiles = {}
    /\ metadata_cache = [f \in Files |-> NoMeta]
    /\ lru \in [maxsize : 1..(MaxFiles - 1), order : {<<>>}]
    /\ runner \in [align_clusters : {FALSE}, pre_executor : PreExecutors]
    /\ fileset = {}
    /\ filemeta = [f \in Files |-> NoMeta]
    /\ to_get = {}
    /\ pre_out = NoOut
    /\ final_fileset = {}
    /\ probes = [f \in Files |-> 0]
    /\ nruns = 0
    /\ rpc = "ready"
    /\ given = NoInput
    /\ listed = NotListed

\* the executors of this file as Runner.executor: only the DaskExecutor has
\* an attribute `retries`
Executors ==
    [kind : {"iterative", "futures", "parsl"}]
    \cup [kind : {"dask"}, retries : 0..MaxRetries]

\* getattr(self.executor, "retries", 0) for every executor
Runner_retries_getattr(executor) ==
    IF "retries" \in DOMAIN executor THEN executor.retries ELSE 0

\* the property Runner.retries
Runner_retries(executor) ==
    IF executor.kind = "dask" THEN 0
    ELSE IF "retries" \in DOMAIN executor THEN executor.retries ELSE 0

\* a Runner with one of the executors, about to wrap a probe or a work
\* function: automatic_retries(self.retries, self.skipbadfiles, closure)
RunnerDriverInit ==
    /\ badfiles = {}
    /\ metadata_cache = [f \in Files |-> NoMeta]
    /\ lru = [maxsize |-> DefaultCacheSize, order |-> <<>>]
    /\ runner \in [align_clusters : {FALSE},
                    pre_executor : {[kind |-> "iterative", treereduction |-> 1]},
                    executor : Executors]
    /\ fileset = {}
    /\ filemeta = [f \in Files |-> NoMeta]
    /\ to_get = {}
    /\ pre_out = NoOut
    /\ final_fileset = {}
    /\ probes = [f \in Files |-> 0]
    /\ nruns = 0
    /\ rpc = "idle"
    /\ given = NoInput
    /\ listed = NotListed
    /\ retries = Runner_retries(runner.executor)
    /\ skipbadfiles \in BOOLEAN
    /\ fails_first \in 0..(MaxRetries + 1)
    /\ retry_count = 0
    /\ calls = 0
    /\ raised = NoException
    /\ outcome = "running"

\* the retry driver as the Runner builds it: Runner.retries is 0 for these
\* pre_executors
RunnerRetryInit ==
    /\ retries = 0
    /\ skipbadfiles \in BOOLEAN
    /\ fails_first = 0
    /\ retry_count = 0
    /\ calls = 0
    /\ raised = NoException
    /\ outcome = "idle"

\* LRUCache.__getitem__ and __setitem__ move the key to the most recently
\* used end.  The order is kept for a cache that can overflow; for one that
\* holds every file of the model it decides nothing and stays empty.
Overflows(maxsize) == maxsize < MaxFiles

Touch(order, f, maxsize) ==
    IF Overflows(maxsize)
    THEN SelectSeq(order, LAMBDA x : x # f) \o <<f>>
    ELSE order

\* the reads `cache[self]` of maybe_populate over the files in turn
RECURSIVE TouchAll(_, _, _, _)
TouchAll(order, files, cache, maxsize) ==
    IF files = <<>> THEN order
    ELSE TouchAll(IF cache[Head(files)] # NoMeta
                  THEN Touch(order, Head(files), maxsize) ELSE order,
                  Tail(files), cache, maxsize)

\* FileMeta.maybe_populate without a look at the cache
maybe_populate_never(metadata, cache, f) == metadata

\* FileMeta.maybe_populate
maybe_populate(metadata, cache, f) ==
    IF cache[f] # NoMeta THEN cache[f] ELSE metadata

\* the closure on file f: automatic_retries(retries, skipbadfiles, fetcher)
Probe(f) ==
    IF f \in badfiles
    THEN IF Handler(ReadError) = "None" THEN "skip" ELSE "raise"
    ELSE "ok"

\* what the closure does on each item of to_get, taken in the order of a list
ProbeOutcomes(files) ==
    LET l == ListOf(files) IN [i \in 1..Len(l) |-> Probe(l[i])]

\* the files whose FileMeta is in the accumulator that came back
Returned(files, acc) ==
    LET l == ListOf(files) IN {l[i] : i \in {k \in 1..Len(l) : acc.cnt[k] > 0}}

\* Runner.preprocess up to the call of the pre_executor: the fileset is
\* normalised, each FileMeta looks into the cache, to_get is collected and,
\* unless it is empty, handed to a copy of the pre_executor without
\* compression.  `al` is align_clusters of the Runner that makes this call.
PreprocessStart(g, al) ==
    /\ rpc \in {"ready", "chunked", "aborted", "config_error"}
    /\ nruns < MaxRuns
    /\ ~_normalize_fileset(g.fileset, g.treename).exc
    /\ nruns' = nruns + 1
    /\ given' = g
    /\ listed' = _normalize_fileset(g.fileset, g.treename)
    /\ fileset' = {listed'.val[i].filename : i \in 1..Len(listed'.val)}
    /\ runner' = [runner EXCEPT !.align_clusters = al]
    /\ filemeta' = [f \in Files |->
                       IF f \in fileset'
                       THEN LET i == CHOOSE k \in 1..Len(listed'.val) :
                                          listed'.val[k].filename = f
                            IN maybe_populate(AsMeta(listed'.val[i].metadata),
                                              metadata_cache, f)
                       ELSE NoMeta]
    /\ to_get' = {f \in fileset' : ~populated(filemeta'[f], al)}
    /\ probes' = [f \in Files |-> IF f \in to_get' THEN probes[f] + 1 ELSE probes[f]]
    /\ final_fileset' = {}
    /\ rpc' = "wait"
    /\ pre_out' = IF to_get' # {} /\ runner.pre_executor.kind = "iterative"
                  THEN IterativeResult(ProbeOutcomes(to_get'))
                  ELSE NoOut
    /\ IF to_get' # {} /\ runner.pre_executor.kind = "dask"
       THEN /\ dask' = [treereduction |-> runner.pre_executor.treereduction,
                        compression |-> NoCompression]
            /\ ditems' = Cardinality(to_get')
            /\ does' = ProbeOutcomes(to_get')
            /\ dpc' = "call"
       ELSE /\ dask' = [treereduction |-> 1, compression |-> NoCompression]
            /\ ditems' = 0
            /\ does' = <<>>
            /\ dpc' = "idle"
    /\ work' = <<>>
    /\ rounds' = 0
    /\ dret' = NoReturn
    /\ lru' = [lru EXCEPT !.order = TouchAll(lru.order, ListOf(fileset'),
                                               metadata_cache, lru.maxsize)]
    /\ UNCHANGED <<badfiles, metadata_cache>>
    /\ UNCHANGED otherThanRunner

\* Runner.preprocess on a fileset that _normalize_fileset refuses: list()
\* drains the generator, so its exception leaves preprocess before any
\* FileMeta has looked into the cache
PreprocessConfigError(g, al) ==
    /\ rpc \in {"ready", "chunked", "aborted", "config_error"}
    /\ nruns < MaxRuns
    /\ _normalize_fileset(g.fileset, g.treename).exc
    /\ nruns' = nruns + 1
    /\ given' = g
    /\ listed' = _normalize_fileset(g.fileset, g.treename)
    /\ runner' = [runner EXCEPT !.align_clusters = al]
    /\ rpc' = "config_error"
    /\ UNCHANGED <<badfiles, metadata_cache, lru, fileset, filemeta, to_get, pre_out,
                   final_fileset, probes>>
    /\ UNCHANGED daskVars
    /\ UNCHANGED otherThanRunner

\* what the pre_executor gave back, once it is through
PreExecutorDone ==
    \/ to_get = {}
    \/ runner.pre_executor.kind = "iterative"
    \/ dpc \in {"returned", "raised"}

PreExecutorResult ==
    IF to_get = {} THEN NoOut
    ELSE IF runner.pre_executor.kind = "iterative" THEN pre_out
    ELSE dret

\* self.metadata_cache[item] = item.metadata on an LRUCache that never
\* makes room
CacheSet_unbounded(c, f, v, maxsize) ==
    [data |-> [c.data EXCEPT ![f] = v], order |-> Touch(c.order, f, maxsize)]

\* self.metadata_cache[item] = item.metadata on an LRUCache: a new key in a
\* full cache first puts out the least recently used one
CacheSet(c, f, v, maxsize) ==
    IF Overflows(maxsize) /\ c.data[f] = NoMeta /\ Len(c.order) >= maxsize
    THEN [data |-> [c.data EXCEPT ![Head(c.order)] = NoMeta, ![f] = v],
          order |-> Tail(c.order) \o <<f>>]
    ELSE [data |-> [c.data EXCEPT ![f] = v], order |-> Touch(c.order, f, maxsize)]

\* the orders in which `out.pop()` may hand out the FileMetas of a set; it
\* matters only to a cache that can overflow
PopOrders(got, maxsize) ==
    IF Overflows(maxsize)
    THEN {o \in [1..Cardinality(got) -> got] :
             \A i, j \in 1..Cardinality(got) : o[i] = o[j] => i = j}
    ELSE {ListOf(got)}

\* `while out: item = out.pop(); self.metadata_cache[item] = item.metadata`
RECURSIVE CacheUpdated(_, _, _, _)
CacheUpdated(c, popped, al, maxsize) ==
    IF popped = <<>> THEN c
    ELSE CacheUpdated(CacheSet(c, Head(popped), Fetched(al), maxsize),
                      Tail(popped), al, maxsize)

\* _filter_badfiles: the populated files, or "raise" on one that is not
\* populated when skipbadfiles is off
_filter_badfiles(fs, fm, al) ==
    LET good == {f \in fs : populated(fm[f], al)} IN
    IF good # fs /\ ~skipbadfiles THEN [exc |-> TRUE, val |-> {}]
    ELSE [exc |-> FALSE, val |-> good]

\* the rest of Runner.preprocess: the pre_executor's exception goes through;
\* else the cache takes what came back, each FileMeta looks into the cache
\* again, and _filter_badfiles decides what is chunked
PreprocessFinish ==
    /\ rpc = "wait"
    /\ PreExecutorDone
    /\ LET res == PreExecutorResult
           al == runner.align_clusters
       IN IF res.how = "raised"
          THEN /\ rpc' = "aborted"
               /\ pre_out' = res
               /\ UNCHANGED <<metadata_cache, lru, filemeta, final_fileset>>
          ELSE /\ \E popped \in PopOrders(IF to_get = {} THEN {}
                                           ELSE Returned(to_get, res.acc),
                                           lru.maxsize) :
                     LET c == CacheUpdated([data |-> metadata_cache, order |-> lru.order],
                                           popped, al, lru.maxsize)
                     IN /\ metadata_cache' = c.data
                        /\ lru' = [lru EXCEPT !.order =
                                      IF to_get = {} THEN c.order
                                      ELSE TouchAll(c.order, ListOf(fileset), c.data,
                                                    lru.maxsize)]
               /\ filemeta' = [f \in Files |->
                                  IF f \in fileset
                                  THEN maybe_populate(filemeta[f], metadata_cache', f)
                                  ELSE NoMeta]
               /\ pre_out' = res
               /\ LET r == _filter_badfiles(fileset, filemeta', al)
                  IN /\ final_fileset' = r.val
                     /\ rpc' = IF r.exc THEN "aborted" ELSE "chunked"
    /\ UNCHANGED <<badfiles, runner, fileset, to_get, probes, nruns, given, listed>>
    /\ UNCHANGED daskVars
    /\ UNCHANGED otherThanRunner

RunnerNext ==
    \/ \E g \in RunnerInputs, al \in BOOLEAN : PreprocessStart(g, al)
    \/ \E g \in RunnerInputs, al \in BOOLEAN : PreprocessConfigError(g, al)
    \/ DaskMap
    \/ DaskReduceRound
    \/ DaskResult
    \/ PreprocessFinish

(***************************************************************************)
(* Runner._normalize_fileset on its own, over every shape of one or two    *)
(* datasets: a list of one or two files, a dict with or without "treename" *)
(* and "metadata" whose "files" is a list, a {filename: treename} map or   *)
(* missing, or a value that is neither.                                    *)
(***************************************************************************)
EntryShapes(dataset) ==
    {ListEntry(dataset, <<1>>), ListEntry(dataset, <<1, 2>>), OtherEntry(dataset)}
    \cup {DictEntry(dataset, t, m, f.files_type, f.names, f.trees) :
            t \in {NoTree, "D"},
            m \in {None, [a |-> 1], [uuid |-> 1]},
            f \in {[files_type |-> "list", names |-> <<1>>, trees |-> <<>>],
                   [files_type |-> "dict", names |-> <<1>>, trees |-> <<"X">>],
                   [files_type |-> "dict", names |-> <<1, 2>>, trees |-> <<"X", "Y">>],
                   [files_type |-> "missing", names |-> <<>>, trees |-> <<>>]}}

NormalizeInputs ==
    [fileset : {<<a>> : a \in EntryShapes("A")}
               \cup {<<a, b>> : a \in EntryShapes("A"), b \in EntryShapes("B")},
     treename : {NoTree, "Events"}]

NormalizeInit ==
    /\ badfiles = {}
    /\ metadata_cache = [f \in Files |-> NoMeta]
    /\ lru = [maxsize |-> DefaultCacheSize, order |-> <<>>]
    /\ runner = [align_clusters |-> FALSE,
                 pre_executor |-> [kind |-> "iterative", treereduction |-> 1]]
    /\ fileset = {}
    /\ filemeta = [f \in Files |-> NoMeta]
    /\ to_get = {}
    /\ pre_out = NoOut
    /\ final_fileset = {}
    /\ probes = [f \in Files |-> 0]
    /\ nruns = 0
    /\ rpc = "given"
    /\ given \in NormalizeInputs
    /\ listed = NotListed

\* fileset = list(self._normalize_fileset(fileset, treename))
Normalize ==
    /\ rpc = "given"
    /\ listed' = _normalize_fileset(given.fileset, given.treename)
    /\ rpc' = "normalized"
    /\ UNCHANGED <<badfiles, metadata_cache, lru, runner, fileset, filemeta, to_get,
                   pre_out, final_fileset, probes, nruns, given>>
    /\ UNCHANGED daskVars
    /\ UNCHANGED otherThanRunner

NormalizeNext == Normalize

(***************************************************************************)
(* Runner.preprocess from _filter_badfiles on, and Runner._chunk_generator *)
(* as a consumer that sends nothing drains it.  A metadata dict is a       *)
(* function from its keys.                                                 *)
(***************************************************************************)
Datasets == {"A", "B"}
FileSizes == {1, 2, 3}      \* numentries of a file
Chunksizes == {1, 2}        \* Runner.chunksize
NoCap == -1                 \* maxchunks=None

EmptyDict == [k \in {} |-> 0]

\* the "metadata" sections of the datasets of a fileset: None, or a dict
UserMetaChoices ==
    {[A |-> None, B |-> [b |-> 2]],
     [A |-> [a |-> 1], B |-> EmptyDict]}

\* every entry of the tree starts a cluster
EveryOffset(N) == [k \in 1..(N + 1) |-> k - 1]

\* metadata_fetcher_root: the dict it returns for a file with user metadata
\* user_meta, N entries and uuid id
metadata_fetcher_root(user_meta, N, id, al) ==
    LET base == IF user_meta = None THEN EmptyDict ELSE user_meta
        keys == DOMAIN base \cup {"numentries", "uuid"}
                    \cup (IF al THEN {"clusters"} ELSE {})
    IN [k \in keys |->
           IF k = "numentries" THEN N
           ELSE IF k = "uuid" THEN id
           ELSE IF k = "clusters" /\ al THEN EveryOffset(N)
           ELSE base[k]]

\* a FileMeta after _preprocess_fileset_root: a good one has what the probe
\* returned, a bad one still has what _normalize_fileset gave it
FileMetaOf(id, dataset, N, good, user_meta, al) ==
    [dataset |-> dataset, filename |-> id, treename |-> "Events",
     metadata |-> IF good THEN metadata_fetcher_root(user_meta, N, id, al)
                  ELSE user_meta]

\* _normalize_fileset yields the files of a dataset one after the other
Grouped(d) ==
    \A i \in DOMAIN d, j \in DOMAIN d, k \in DOMAIN d :
        (i < j /\ j < k /\ d[i] = d[k]) => d[j] = d[i]

NormalizedLists(al) ==
    UNION {
        {[i \in 1..n |-> FileMetaOf(i, d[i], z[i], g[i], u[d[i]], al)] :
            d \in {x \in [1..n -> Datasets] : Grouped(x)},
            z \in [1..n -> FileSizes],
            g \in [1..n -> BOOLEAN],
            u \in UserMetaChoices} :
        n \in 0..MaxFiles}

StreamInit ==
    /\ config \in [chunksize : Chunksizes, maxchunks : {NoCap} \cup 0..MaxCap,
                    align_clusters : BOOLEAN, skipbadfiles : BOOLEAN]
    /\ normalized \in NormalizedLists(config.align_clusters)
    /\ retained = <<>>
    /\ position = 0
    /\ nchunks = [d \in Datasets |-> 0]
    /\ collected = <<>>
    /\ stream = <<>>
    /\ spc = "preprocess"

StreamIdle ==
    /\ config = [chunksize |-> 1, maxchunks |-> NoCap,
                 align_clusters |-> FALSE, skipbadfiles |-> FALSE]
    /\ normalized = <<>>
    /\ retained = <<>>
    /\ position = 0
    /\ nchunks = [d \in Datasets |-> 0]
    /\ collected = <<>>
    /\ stream = <<>>
    /\ spc = "idle"

\* _filter_badfiles on the list
RECURSIVE FilterList(_, _, _)
FilterList(fs, al, skip) ==
    IF fs = <<>> THEN [exc |-> FALSE, val |-> <<>>]
    ELSE LET rest == FilterList(Tail(fs), al, skip) IN
         IF populated(AsMeta(Head(fs).metadata), al)
         THEN [exc |-> rest.exc, val |-> IF rest.exc THEN <<>> ELSE <<Head(fs)>> \o rest.val]
         ELSE IF ~skip THEN [exc |-> TRUE, val |-> <<>>]
         ELSE rest

\* the list as it is
Kept(l) == l

\* list.reverse()
Reversed(l) == [i \in 1..Len(l) |-> l[Len(l) + 1 - i]]

\* the unaligned loop of FileMeta.chunks when nothing is sent: n and
\* actual_chunksize are computed on the first turn
RECURSIVE UnalignedFrom(_, _, _)
UnalignedFrom(s, actual, N) ==
    IF s < N
    THEN <<(<<s, Min(N, s + actual)>>)>> \o UnalignedFrom(Min(N, s + actual), actual, N)
    ELSE <<>>

\* the ranges FileMeta.chunks yields to a `for` loop
Ranges(m, target, al) ==
    IF al
    THEN LET b == AlignedBoundaries(m.clusters, target)
         IN [k \in 1..(Len(b) - 1) |-> <<b[k], b[k + 1]>>]
    ELSE IF m.numentries > 0
    THEN UnalignedFrom(0, ceil(m.numentries, Max(round(m.numentries, target), 1)),
                       m.numentries)
    ELSE <<>>

\* user_meta with every key of the metadata
user_meta_all(d) == d

\* user_keys = set(self.metadata.keys()) - _PROTECTED_NAMES and
\* user_meta = {k: self.metadata[k] for k in user_keys}
user_meta(d) == [k \in (DOMAIN d) \ _PROTECTED_NAMES |-> d[k]]

\* the WorkItems FileMeta.chunks yields to a `for` loop
WorkItems(f, target, al) ==
    LET r == Ranges(AsMeta(f.metadata), target, al)
    IN [k \in 1..Len(r) |->
           [dataset |-> f.dataset, filename |-> f.filename, treename |-> f.treename,
            entrystart |-> r[k][1], entrystop |-> r[k][2],
            fileuuid |-> f.metadata["uuid"], usermeta |-> user_meta(f.metadata)]]

\* Runner.preprocess after _preprocess_fileset_root: _filter_badfiles, then
\* fileset.reverse(); the chunk generator is made
FilterAndReverse ==
    /\ spc = "preprocess"
    /\ LET r == FilterList(normalized, config.align_clusters, config.skipbadfiles)
       IN IF r.exc
          THEN /\ spc' = "raised"
               /\ retained' = retained
          ELSE /\ spc' = "chunking"
               /\ retained' = Reversed(r.val)
    /\ UNCHANGED <<config, normalized, position, nchunks, collected, stream>>
    /\ UNCHANGED otherThanStream

\* the loop without its break: every chunk of the file
UpToCap_whole(all, take) == all

\* `for chunk in filemeta.chunks(...)` with its break: the chunks up to the cap
UpToCap(all, take) == SubSeq(all, 1, Min(Len(all), take))

\* one turn of `for filemeta in fileset`, maxchunks None: `yield from` the
\* file's chunks
ChunkGeneratorYieldFrom ==
    /\ spc = "chunking" /\ position < Len(retained)
    /\ config.maxchunks = NoCap
    /\ stream' = stream \o WorkItems(retained[position + 1], config.chunksize,
                                      config.align_clusters)
    /\ position' = position + 1
    /\ UNCHANGED <<config, normalized, retained, nchunks, collected, spc>>
    /\ UNCHANGED otherThanStream

\* one turn of `for filemeta in fileset`, maxchunks given
ChunkGeneratorCollect ==
    /\ spc = "chunking" /\ position < Len(retained)
    /\ config.maxchunks # NoCap
    /\ LET f == retained[position + 1]
           all == WorkItems(f, config.chunksize, config.align_clusters)
           taken == UpToCap(all, config.maxchunks - nchunks[f.dataset])
       IN IF nchunks[f.dataset] >= config.maxchunks
          THEN UNCHANGED <<collected, nchunks>>
          ELSE /\ collected' = collected \o taken
               /\ nchunks' = [nchunks EXCEPT ![f.dataset] = @ + Len(taken)]
    /\ position' = position + 1
    /\ UNCHANGED <<config, normalized, retained, stream, spc>>
    /\ UNCHANGED otherThanStream

\* the loop is over; with maxchunks given, `yield from (c for c in chunks)`
ChunkGeneratorEnd ==
    /\ spc = "chunking" /\ position = Len(retained)
    /\ stream' = IF config.maxchunks = NoCap THEN stream ELSE collected
    /\ spc' = "done"
    /\ UNCHANGED <<config, normalized, retained, position, nchunks, collected>>
    /\ UNCHANGED otherThanStream

StreamNext ==
    \/ FilterAndReverse
    \/ ChunkGeneratorYieldFrom
    \/ ChunkGeneratorCollect
    \/ ChunkGeneratorEnd

(***************************************************************************)
(* The specifications: one executor call; one run of the chunks generator; *)
(* one call of the retry driver; one DaskExecutor call.                    *)
(***************************************************************************)
Init == PoolInit /\ ChunksIdle /\ RetryIdle /\ DaskIdle /\ RunnerIdle /\ StreamIdle /\ JECIdle
Next == PoolNext
Spec == Init /\ [][Next]_vars
\* the driver keeps taking its next step; a task may never finish
SpecDriverLive == Spec /\ WF_vars(DriverNext)

\* an executor call as Runner.run makes it, and the end of run
InitRun == PoolInit /\ ChunksIdle /\ RetryIdle /\ DaskIdle /\ RunnerIdle /\ StreamIdle /\ JECIdle
RunNext == PoolNext \/ RunFinish
SpecRun == InitRun /\ [][RunNext]_vars

InitChunks == PoolIdle /\ ChunksInit /\ RetryIdle /\ DaskIdle /\ RunnerIdle /\ StreamIdle /\ JECIdle
SpecChunks == InitChunks /\ [][ChunksNext]_vars

InitRetry == PoolIdle /\ ChunksIdle /\ RetryInit /\ DaskIdle /\ RunnerIdle /\ StreamIdle /\ JECIdle
SpecRetry == InitRetry /\ [][RetryNext]_vars
\* the driver is a sequential loop: it keeps taking its next step
SpecRetryLive == SpecRetry /\ WF_vars(RetryNext)

InitDask == PoolIdle /\ ChunksIdle /\ RetryIdle /\ DaskInit /\ RunnerIdle /\ StreamIdle /\ JECIdle
SpecDask == InitDask /\ [][DaskNext]_vars

\* preprocess calls of Runners that share one metadata cache
InitRunner ==
    PoolIdle /\ ChunksIdle /\ RunnerRetryInit /\ DaskIdle /\ RunnerInit /\ StreamIdle /\ JECIdle
SpecRunner == InitRunner /\ [][RunnerNext]_vars

(***************************************************************************)
(* Runner.preprocess and the chunks it yields, with the user metadata of   *)
(* the datasets: the same file may be in two datasets, and the cache is    *)
(* kept from one call to the next.  Every file is readable and has one     *)
(* entry, the pre_executor is the IterativeExecutor, the cache holds per   *)
(* file the dict that was stored for it, or NoMeta.                        *)
(***************************************************************************)
UserMetas == {None, [a |-> 1], [a |-> 2]}

SharedFileInputs ==
    [fileset : {<<DictEntry("A", NoTree, m, "list", n, <<>>)>> :
                    m \in UserMetas, n \in {<<1>>, <<1, 2>>}}
               \cup {<<DictEntry("A", NoTree, ma, "list", na, <<>>),
                       DictEntry("B", NoTree, mb, "list", nb, <<>>)>> :
                       ma \in UserMetas, mb \in UserMetas,
                       na \in {<<1>>, <<1, 2>>}, nb \in {<<1>>, <<2>>}},
     treename : {"Events"}]

SharedFileInit ==
    /\ badfiles = {}
    /\ metadata_cache = [f \in Files |-> NoMeta]
    /\ lru = [maxsize |-> DefaultCacheSize, order |-> <<>>]
    /\ runner = [align_clusters |-> FALSE,
                 pre_executor |-> [kind |-> "iterative", treereduction |-> 1]]
    /\ fileset = {}
    /\ filemeta = [f \in Files |-> NoMeta]
    /\ to_get = {}
    /\ pre_out = NoOut
    /\ final_fileset = {}
    /\ probes = [f \in Files |-> 0]
    /\ nruns = 0
    /\ rpc = "ready"
    /\ given = NoInput
    /\ listed = NotListed

\* the FileMeta that stands for its (filename, treename) in the set to_get:
\* the first of its kind in the fileset
FirstOfKind(l, i) ==
    \A j \in 1..(i - 1) :
        ~(l[j].filename = l[i].filename /\ l[j].treename = l[i].treename)

\* _preprocess_fileset_root on the list l of FileMetas: the cache after the
\* probes of to_get have been stored
CacheAfterProbes(l, cache) ==
    [f \in Files |->
        IF \E i \in 1..Len(l) :
              l[i].filename = f /\ ~populated(AsMeta(l[i].metadata), FALSE)
        THEN LET i == CHOOSE k \in 1..Len(l) : l[k].filename = f /\ FirstOfKind(l, k)
             IN metadata_fetcher_root(l[i].metadata, 1, f, FALSE)
        ELSE cache[f]]

\* `for filemeta in fileset: filemeta.maybe_populate(cache)`
Populate(l, cache) ==
    [i \in 1..Len(l) |->
        [l[i] EXCEPT !.metadata = maybe_populate(l[i].metadata, cache, l[i].filename)]]

\* the chunks of the files of l, one file after the other
RECURSIVE ChunksOf(_, _)
ChunksOf(l, target) ==
    IF l = <<>> THEN <<>>
    ELSE WorkItems(Head(l), target, FALSE) \o ChunksOf(Tail(l), target)

\* Runner.preprocess on a fileset, drained by its consumer: normalised,
\* populated from the cache, probed, populated again, filtered, reversed and
\* chunked
PreprocessAndChunk(g) ==
    /\ rpc \in {"ready", "done"}
    /\ nruns < MaxRuns
    /\ nruns' = nruns + 1
    /\ given' = g
    /\ LET l0 == _normalize_fileset(g.fileset, g.treename).val
           l1 == Populate(l0, metadata_cache)
           cache == CacheAfterProbes(l1, metadata_cache)
           l2 == Populate(l1, cache)
       IN /\ metadata_cache' = cache
          /\ listed' = [exc |-> FALSE, val |-> l2]
          /\ stream' = ChunksOf(Reversed(l2), 1)
    /\ rpc' = "done"
    /\ UNCHANGED <<badfiles, lru, runner, fileset, filemeta, to_get, pre_out,
                   final_fileset, probes>>
    /\ UNCHANGED <<config, normalized, retained, position, nchunks, collected, spc>>
    /\ UNCHANGED <<poolVars, chunkVars, retryVars, daskVars, run, jecstack>>

SharedFileNext == \E g \in SharedFileInputs : PreprocessAndChunk(g)

InitSharedFile ==
    PoolIdle /\ ChunksIdle /\ RetryIdle /\ DaskIdle /\ SharedFileInit /\ StreamIdle /\ JECIdle
SpecSharedFile == InitSharedFile /\ [][SharedFileNext]_vars

(***************************************************************************)
(* JECStack.__init__.  `corrections` is the set of its keys, a key is read *)
(* by the words in it; an explicit corrector is None, of the right class   *)
(* or of another one.                                                      *)
(***************************************************************************)
CorrectionKeys ==
    {"Summer_L1FastJet", "Summer_Uncertainty", "Summer_PtResolution",
     "Fall_PtResolution", "Summer_SF", "Fall_SF", "Summer_ResolutionSF", "Readme"}

HasUncertainty(key) == key = "Summer_Uncertainty"
HasSF(key) == key \in {"Summer_SF", "Fall_SF", "Summer_ResolutionSF"}
HasResolution(key) ==
    key \in {"Summer_PtResolution", "Fall_PtResolution", "Summer_ResolutionSF"}
HasLevel(key) == key = "Summer_L1FastJet"      \* _levelre finds a level in it

\* assembled[corrtype] after the loop over corrections.keys()
assembled(corrections, corrtype) ==
    {key \in corrections :
        IF HasUncertainty(key) THEN corrtype = "junc"
        ELSE IF HasSF(key) THEN corrtype = "jersf"
        ELSE IF HasResolution(key) /\ ~HasSF(key) THEN corrtype = "jer"
        ELSE IF HasLevel(key) THEN corrtype = "jec"
        ELSE FALSE}

_singletons == {"jer", "jersf"}

Correctors == {"None", "right", "wrong"}

\* one of the four correctors: the explicit one if it is of its class, else
\* the one made from corrections, else None; "raise" for a wrong class
Corrector(explicit, entries) ==
    IF explicit = "None" THEN (IF entries = {} THEN "None" ELSE "made")
    ELSE IF explicit = "right" THEN "given"
    ELSE "raise"

\* a constructor without its last check
Mismatch_never(jer, jersf) == FALSE
\* (self.jer is None) != (self.jersf is None)
Mismatch(jer, jersf) == (jer = "None") # (jersf = "None")

\* JECStack(corrections, jec, junc, jer, jersf): the stack, or Raised
JECStack(a) ==
    LET jec == Corrector(a.jec, assembled(a.corrections, "jec"))
        junc == Corrector(a.junc, assembled(a.corrections, "junc"))
        jer == Corrector(a.jer, assembled(a.corrections, "jer"))
        jersf == Corrector(a.jersf, assembled(a.corrections, "jersf"))
    IN IF \E corrtype \in _singletons :
             Cardinality(assembled(a.corrections, corrtype)) > 1
       THEN Raised
       ELSE IF "raise" \in {jec, junc, jer, jersf} THEN Raised
       ELSE IF Mismatch(jer, jersf) THEN Raised
       ELSE [how |-> "made", jec |-> jec, junc |-> junc, jer |-> jer,
             jersf |-> jersf]

JECInit ==
    jecstack \in [args : [corrections : SUBSET CorrectionKeys, jec : Correctors,
                          junc : Correctors, jer : Correctors, jersf : Correctors],
                  built : {NotBuilt}]

Construct ==
    /\ jecstack.built = NotBuilt /\ jecstack # NoStack
    /\ jecstack' = [jecstack EXCEPT !.built = JECStack(jecstack.args)]
    /\ UNCHANGED otherThanJEC

JECNext == Construct

InitJEC ==
    PoolIdle /\ ChunksIdle /\ RetryIdle /\ DaskIdle /\ RunnerIdle /\ StreamIdle
    /\ JECInit
SpecJEC == InitJEC /\ [][JECNext]_vars

\* the retry driver as Runner.run and Runner.preprocess build it
InitDriver == PoolIdle /\ ChunksIdle /\ DaskIdle /\ RunnerDriverInit /\ StreamIdle /\ JECIdle
SpecDriver == InitDriver /\ [][RetryNext]_vars

\* preprocess calls of a Runner with a small LRUCache
InitCache ==
    PoolIdle /\ ChunksIdle /\ RunnerRetryInit /\ DaskIdle /\ RunnerSmallCacheInit
    /\ StreamIdle /\ JECIdle
SpecCache == InitCache /\ [][RunnerNext]_vars

\* one fileset through _normalize_fileset
InitNormalize ==
    PoolIdle /\ ChunksIdle /\ RetryIdle /\ DaskIdle /\ NormalizeInit /\ StreamIdle /\ JECIdle
SpecNormalize == InitNormalize /\ [][NormalizeNext]_vars

\* one preprocess call from its filter on, and the chunk stream it returns
InitStream ==
    PoolIdle /\ ChunksIdle /\ RetryIdle /\ DaskIdle /\ RunnerIdle /\ StreamInit /\ JECIdle
SpecStream == InitStream /\ [][StreamNext]_vars

(***************************************************************************)
(* Properties of an executor call (Spec).                                  *)
(***************************************************************************)
Terminated == pc \in {"returned", "raised"}

\* the accumulator with the zero and the output of every item of S that
\* returned one, each once
FoldOf(S) ==
    Acc([s \in Slots |->
            IF s = 0 THEN 1
            ELSE IF s \in S /\ fut[s].st = "ok" /\ fut[s].val.kind # "None" THEN 1
            ELSE 0])

Raisers == {h \in 1..nitems : fut[h].st = "failed"}
FailedMerges == {h \in MergeHandles : fut[h].st = "failed"}

\* every work task returned and no merge task raised
AllTasksSucceeded ==
    /\ \A h \in 1..nitems : fut[h].st = "ok"
    /\ FailedMerges = {}

\* C1: a FuturesExecutor call on a non-empty list all of whose tasks succeed
\* returns (the zero merged with every item's output exactly once, 0), with
\* merging off and on, however the completions interleave.
C1_FoldOfEveryItem ==
    (cfg.kind = "futures" /\ nitems > 0 /\ Terminated /\ AllTasksSucceeded)
        => /\ ret.how = "pair"
           /\ ret.err = NoError
           /\ ret.acc = FoldOf(1..nitems)

C1_Witness ==
    /\ cfg.kind = "futures" /\ Merging /\ nitems >= 3
    /\ pc = "returned" /\ AllTasksSucceeded
    /\ \A h \in 1..nitems : fut[h].val.kind # "None"
    /\ Cardinality({h \in MergeHandles : fut[h].st = "ok"}) >= 2
    /\ ret.acc = FoldOf(1..nitems)

\* the work tasks whose completion the driver has taken note of
Noted == (1..nitems) \ FH.futures

\* C2: a recoverable pool executor call in which exactly one task raised
\* returns the merge of the outputs of all tasks that succeeded, each once,
\* those merged by the driver before the failure among them, together with the
\* failing task's exception.  (Stated for the tasks whose completion the
\* driver has taken note of: a task that succeeded unnoticed is not asked for.)
C2_RecoversEverySuccess ==
    (/\ cfg.kind \in {"futures", "parsl"} /\ cfg.recoverable
     /\ pc = "returned" /\ Cardinality(Raisers) = 1 /\ FailedMerges = {})
        => /\ ret.how = "pair"
           /\ ret.err \in Raisers
           /\ ret.acc = FoldOf(Noted)

\* C2 with merging on: there the outputs are recovered
C2_RecoversWhenMerging == Merging => C2_RecoversEverySuccess

\* C3: a call with an empty item sequence returns the pair (zero, null).
C3_EmptyReturnsPair ==
    (pc = "returned" /\ nitems = 0)
        => (ret.how = "pair" /\ ret.acc = Zero /\ ret.err = NoError)

\* C5: merging on: when the watcher's loop is left, no work or merge handle is
\* in flight and exactly one handle is in completed; on the return that
\* follows its result is the accumulator returned by the watcher and futures,
\* merges and completed are empty.
C5_AtExit ==
    (Merging /\ pc = "exit")
        => /\ Cardinality(FH.completed) = 1
           /\ FH.futures = {} /\ FH.merges = {}

C5_Return ==
    (Merging /\ pc = "exit" /\ pc' = "returned")
        => /\ \E h \in FH.completed : merged' = fut[h].val
           /\ ret'.acc = accumulate(<<_decompress(merged'), Zero>>, None)
           /\ FH'.futures = {} /\ FH'.merges = {} /\ FH'.completed = {}

C5_OneHandleLeft == []C5_AtExit /\ [][C5_Return]_vars

C5_Witness ==
    /\ Merging /\ pc = "returned" /\ nitems >= 3 /\ ret.err = NoError
    /\ \E h \in MergeHandles : fut[h].st = "ok" /\ merged = fut[h].val
    /\ FH.completed = {}

\* the handles the holder has not yet reduced away
Outstanding(fh) ==
    Cardinality(fh.futures) + Cardinality(fh.merges) + Cardinality(fh.completed)

\* C6: merging on: every batch drained into a merge task strictly reduces the
\* number of outstanding handles (so the loop cannot submit merges forever).
C6_BatchReduces ==
    [][(pc = "inner" /\ FH'.merges # FH.merges) => Outstanding(FH') < Outstanding(FH)]_vars

\* the handles a step of the watcher takes out of FH.completed for good
Gone == FH.completed \ FH'.completed

\* C27: a fetch either pops min(N, |completed|) handles, all of them good,
\* and hands on exactly their results (to the reducer it submits, or to the
\* local merge); or it raises the exception of a bad handle of its batch and
\* only bad handles leave completed: every good handle is still there
C27_Fetch ==
    [][(pc \in {"inner", "local"} /\ Gone # {}) =>
          \/ /\ \A h \in Gone : _good_future(h)
             /\ pc' # "except"
             /\ caught' = caught
             /\ Cardinality(Gone) =
                    Min(IF pc = "inner" THEN merge_size ELSE Cardinality(FH.completed),
                        Cardinality(FH.completed))
             /\ IF pc = "inner"
                THEN \E m \in MergeHandles :
                        /\ fut[m].st = "none"
                        /\ fut'[m] = Submitted(Results(Gone))
                ELSE merged' = _compress(
                         accumulate(MapDecompress(Results(Gone)), _decompress(merged)),
                         cfg.compression)
          \/ /\ pc' = "except"
             /\ \A h \in Gone : ~_good_future(h)
             /\ \E h \in Gone :
                    caught' = IF fut[h].st = "cancelled" THEN CancelledError
                              ELSE fut[h].exc
             /\ fut' = fut /\ merged' = merged]_vars

\* a fetch of the local merge has raised the exception of a failed task and
\* a task that succeeded is still in completed
C27_Witness ==
    /\ pc = "except" /\ ~Merging
    /\ \E h \in WorkHandles :
          /\ fut[h].st = "failed" /\ fut[h].exc = caught /\ h \notin FH.completed
    /\ \E h \in FH.completed : _good_future(h)

\* the _FuturesHolder exists and none of its methods is half-way through
Constructed == cfg.kind # "iterative" /\ pc \notin {"idle", "call"} /\ nitems > 0
InUpdate == pc \in {"upd_f", "upd_m", "wfm_f", "wfm_m", "fin_f", "fin_m"}
MidUpdate == pc \in {"upd_m", "wfm_m", "fin_m"}
AddMergeCalls == Cardinality({h \in MergeHandles : fut[h].st # "none"})

C31_Bookkeeping ==
    (Constructed /\ ~MidUpdate) =>
        /\ FH.running = Cardinality(FH.futures) + Cardinality(FH.merges)
        /\ FH.futures \cap FH.merges = {}
        /\ FH.futures \cap FH.completed = {}
        /\ FH.merges \cap FH.completed = {}
        /\ FH.done_futures + Cardinality(FH.futures) = nitems
        /\ FH.done_merges + Cardinality(FH.merges) = AddMergeCalls

C31_UpdateOnlyAdds ==
    InUpdate =>
        /\ FH.completed \subseteq FH'.completed
        /\ \A h \in FH'.completed \ FH.completed : Finished(h)

\* C31: between the calls of update, add_merge and fetch, running is
\* |futures| + |merges|, the three sets are pairwise disjoint, done.futures +
\* |futures| is the number of work handles, done.merges + |merges| the number
\* of add_merge calls; and an update only adds finished handles to completed
C31_FuturesHolder == []C31_Bookkeeping /\ [][C31_UpdateOnlyAdds]_vars

\* after updates, merges added and fetched batches
C31_Witness ==
    /\ Constructed /\ pc = "inner"
    /\ FH.done_futures >= 2 /\ FH.done_merges >= 1
    /\ FH.merges # {} /\ FH.futures # {} /\ FH.completed # {}

\* x clamped into [lo, hi]
Clamp(x, lo, hi) == IF x < lo THEN lo ELSE IF x > hi THEN hi ELSE x

\* C32: with merging (N, MIN, MAX), MIN <= MAX, _merge_size(c) is
\* floor(c/N) + 1 clamped into [MIN, MAX] for every c, the merge_size the
\* watcher holds is the one of the completed handles it counted, and no
\* batch handed to the reducer has more than MAX results
C32_MergeSize ==
    (Merging /\ cfg.kind # "iterative") =>
        /\ \A c \in 0..(MaxItems * MaxItems) :
              _merge_size(c) =
                  Clamp((c \div cfg.merging[1]) + 1, cfg.merging[2], cfg.merging[3])
        /\ pc = "inner" =>
              /\ cfg.merging[2] <= merge_size /\ merge_size <= cfg.merging[3]
              /\ \E c \in 0..(MaxItems + MaxMerges) : merge_size = _merge_size(c)
        /\ \A m \in MergeHandles :
              fut[m].st # "none" => Len(fut[m].arg) <= cfg.merging[3]

\* a merge of MIN results was submitted, MIN being more than floor(c/N) + 1
C32_Witness ==
    /\ Merging /\ cfg.merging = <<5, 4, 100>> /\ pc = "inner" /\ merge_size = 4
    /\ \E m \in MergeHandles : fut[m].st # "none" /\ Len(fut[m].arg) >= 2

\* C33: a step of the watcher that submits a merge task is taken with more
\* than one completed handle waiting, and with at least MIN of them unless
\* nothing is in flight; the batch has fewer than MIN results only when
\* nothing was in flight
C33_MergeDeferral ==
    [][(pc = "inner" /\ FH'.merges # FH.merges) =>
          /\ Cardinality(FH.completed) > 1
          /\ ~(FH.running > 0 /\ Cardinality(FH.completed) < cfg.merging[2])
          /\ \A m \in FH'.merges \ FH.merges :
                Len(fut'[m].arg) < cfg.merging[2] => FH.running = 0]_vars

\* a merge of fewer than MIN results, submitted when nothing was in flight
C33_Witness ==
    /\ Merging /\ pc = "inner"
    /\ \E m \in FH.merges :
          /\ fut[m].st = "pending" /\ Len(fut[m].arg) < cfg.merging[2]
          /\ FH.futures = {} /\ FH.merges = {m}

\* C28: the outputs are combined in one order whatever the completions do,
\* here the order of the items: with merging off, an output is in the local
\* merged only when the output of every earlier item that gave one is in it
C28_SameOrderEveryRun ==
    (cfg.kind # "iterative" /\ ~Merging) =>
        \A i, j \in 1..nitems :
            (i < j /\ merged.cnt[j] > 0 /\ fut[i].st = "ok" /\ fut[i].val.cnt[i] > 0)
                => merged.cnt[i] > 0

(***************************************************************************)
(* Properties of Runner.run (SpecRun).                                     *)
(***************************************************************************)
\* no chunk gave a result: there is no chunk, or every work function
\* returned None
NoChunkResult ==
    \/ nitems = 0
    \/ /\ cfg.kind # "iterative"
       /\ \A i \in 1..nitems : fut[i].st = "ok" /\ fut[i].val.kind = "None"

\* C37: when no chunk gave a result, on an empty chunk list too, run raises
\* the ValueError "No chunks returned results" and does not call postprocess
C37_NoChunksIsValueError ==
    (run # NoRun /\ NoChunkResult) =>
        /\ run.how = "raised"
        /\ run.err = NoChunksError
        /\ ~run.postprocessed

\* the chunks whose work function returned a result, by the time the
\* executor had taken note of them
GaveResult == {i \in Noted : fut[i].st = "ok" /\ fut[i].val.kind # "None"}

\* C38: `processed` of what run returns is exactly the set of the chunks
\* whose work function returned a result
C38_ProcessedExact ==
    (run.how = "returned" /\ cfg.kind # "iterative")
        => Processed(run.out) = GaveResult

(***************************************************************************)
(* Properties of FileMeta.chunks (SpecChunks).                             *)
(***************************************************************************)
\* the entries that lie in an emitted range
Covered ==
    {e \in 0..(meta.numentries - 1) :
        \E i \in 1..Len(emitted) : emitted[i][1] <= e /\ e < emitted[i][2]}

\* C4: in aligned and in unaligned mode, whatever the target and whatever the
\* consumer sends, every emitted range has 0 <= entrystart < entrystop <= N,
\* the ranges come in increasing order without overlap, and once the generator
\* has returned they cover [0, N) exactly.
C4_Partition ==
    /\ \A i \in 1..Len(emitted) :
          /\ 0 <= emitted[i][1]
          /\ emitted[i][1] < emitted[i][2]
          /\ emitted[i][2] <= meta.numentries
    /\ \A i \in 1..(Len(emitted) - 1) : emitted[i][2] <= emitted[i + 1][1]
    /\ gen = "returned" => Covered = 0..(meta.numentries - 1)

\* an unaligned run whose chunk size grew on the consumer's feedback
C4_Witness ==
    /\ gen = "returned" /\ ~align_clusters /\ Len(emitted) >= 3
    /\ emitted[2][2] - emitted[2][1] > emitted[1][2] - emitted[1][1]
    /\ Covered = 0..(meta.numentries - 1)

Length(i) == emitted[i][2] - emitted[i][1]

\* C21: unaligned mode, no feedback: every emitted chunk is at most
\* ceil(N / max(round(N / T), 1)) long
C21_ChunkSizeBound ==
    (~align_clusters /\ ~resized) =>
        \A i \in 1..Len(emitted) :
            Length(i) <= ceil(meta.numentries,
                              Max(round(meta.numentries, target_chunksize), 1))

\* an unaligned run without feedback, over, whose first chunk is as long as
\* the bound and whose last is shorter
C21_Witness ==
    /\ ~align_clusters /\ ~resized /\ gen = "returned" /\ Len(emitted) >= 2
    /\ Length(1) = ceil(meta.numentries,
                        Max(round(meta.numentries, target_chunksize), 1))
    /\ Length(Len(emitted)) < Length(1)

\* round with a ratio ending in .5 rounded up
RoundHalfUp(a, b) == (2 * a + b) \div (2 * b)

\* the chunks of an unaligned run without feedback, once it is over
NoFeedbackRun == ~align_clusters /\ ~resized /\ gen = "returned" /\ meta.numentries > 0

\* C22 as stated: N entries with target T are split into exactly
\* n = max(round(N / T), 1) chunks, a ratio ending in .5 rounded up, and the
\* lengths are balanced: they differ by at most one, the larger ones first
C22_BalancedSplit ==
    NoFeedbackRun =>
        /\ Len(emitted) = Max(RoundHalfUp(meta.numentries, target_chunksize), 1)
        /\ \A i \in 1..Len(emitted), j \in 1..Len(emitted) :
              i < j => Length(i) >= Length(j) /\ Length(i) - Length(j) <= 1

\* C22: with n = max(round(N / T), 1), a ratio ending in .5 rounded to the
\* even neighbour, and actual = ceil(N / n), the run emits ceil(N / actual)
\* chunks, at most n; each is actual long but the last, which holds the rest
C22_Split ==
    NoFeedbackRun =>
        LET n == Max(round(meta.numentries, target_chunksize), 1)
            actual == ceil(meta.numentries, n)
            k == Len(emitted)
        IN /\ k = ceil(meta.numentries, actual)
           /\ k <= n
           /\ \A i \in 1..(k - 1) : Length(i) = actual
           /\ Length(k) = meta.numentries - (k - 1) * actual

\* the shape of 250 entries with target 100: the ratio 2.5 gives two chunks
C22_Witness ==
    /\ NoFeedbackRun
    /\ meta.numentries = 5 /\ target_chunksize = 2
    /\ emitted = <<(<<0, 3>>), (<<3, 5>>)>>

\* C23: unaligned mode: when the consumer sends a target T' other than the
\* current one, the next chunk is min(remaining, ceil(remaining /
\* max(round(remaining / T'), 1))) long, remaining = numentries - start, and
\* that size stays in use; a plain next() or a send of the current target
\* leaves the size in use as it is
C23_AdaptiveResize ==
    [][(~align_clusters /\ gen = "yielded" /\ Len(emitted') = Len(emitted) + 1) =>
          LET remaining == meta.numentries - Last(emitted)[2]
              len == Last(emitted')[2] - Last(emitted')[1]
          IN IF sent' # 0 /\ sent' # target_chunksize
             THEN LET size == ceil(remaining, Max(round(remaining, sent'), 1))
                  IN /\ len = Min(remaining, size)
                     /\ actual_chunksize' = size
                     /\ target_chunksize' = sent'
             ELSE /\ len = Min(remaining, actual_chunksize)
                  /\ actual_chunksize' = actual_chunksize
                  /\ target_chunksize' = target_chunksize]_vars

\* a run whose chunks shrank on the consumer's feedback and kept the new size
\* on the plain next() that followed
C23_Witness ==
    /\ ~align_clusters /\ resized /\ sent = 0 /\ Len(emitted) >= 3
    /\ Length(2) < Length(1)
    /\ Length(3) = Length(2)

Elements(seq) == {seq[k] : k \in 1..Len(seq)}

Started == gen \in {"yielded", "returned"}

\* C19: in aligned mode every entrystart and every entrystop that is emitted
\* is one of the file's cluster offsets
C19_OnClusterOffsets ==
    align_clusters =>
        \A i \in 1..Len(emitted) :
            /\ emitted[i][1] \in Elements(meta.clusters)
            /\ emitted[i][2] \in Elements(meta.clusters)

\* an aligned run of several chunks that passed over a cluster offset
C19_Witness ==
    /\ align_clusters /\ gen = "returned" /\ Len(emitted) >= 2
    /\ \E c \in Elements(meta.clusters) :
          \A i \in 1..Len(emitted) : emitted[i][1] # c /\ emitted[i][2] # c
    /\ \A i \in 1..Len(emitted) : emitted[i][2] \in Elements(meta.clusters)

\* the boundary before offset c
PreviousBoundary(c) ==
    LET before == {b \in Elements(chunks) : b < c}
    IN CHOOSE b \in before : \A x \in before : x <= b

\* C20: in aligned mode the boundaries start at 0 and end at numentries; an
\* offset is a boundary exactly when it is at least the previous boundary plus
\* target_chunksize or is the closing offset; and every emitted chunk but the
\* last of the file is at least target_chunksize long
C20_GreedyRule ==
    (align_clusters /\ Started) =>
        /\ chunks[1] = 0
        /\ Last(chunks) = meta.numentries
        /\ \A c \in Elements(meta.clusters) \ {0} :
              c \in Elements(chunks)
                 <=> \/ c >= PreviousBoundary(c) + target_chunksize
                     \/ c = meta.numentries
        /\ \A i \in 1..Len(emitted) :
              i < Len(chunks) - 1
                 => emitted[i][2] - emitted[i][1] >= target_chunksize

\* the shape of clusters [0, 40, 90, 150] with target 50: the first offset is
\* passed over, the next two are boundaries by the rule
C20_Witness ==
    /\ align_clusters /\ gen = "returned"
    /\ meta.clusters = <<0, 2, 3, 6>> /\ target_chunksize = 3
    /\ emitted = <<(<<0, 3>>), (<<3, 6>>)>>

\* C20: an aligned run whose last chunk is shorter than target_chunksize
C20_ShortLast ==
    /\ align_clusters /\ gen = "returned" /\ Len(emitted) >= 2
    /\ Last(emitted)[2] - Last(emitted)[1] < target_chunksize

(***************************************************************************)
(* Properties of the DaskExecutor's tree reduction (SpecDask).             *)
(***************************************************************************)
\* the zero merged with the output of every item that returned one, each once
DaskFold ==
    Acc([s \in Slots |->
            IF s = 0 \/ (s \in 1..ditems /\ does[s] = "ok") THEN 1 ELSE 0])

\* C7: a DaskExecutor call that returns gives (the zero merged with every work
\* task's output exactly once, 0), whatever the branching factor.
C7_RootIsFoldOfAll ==
    (dpc = "returned" /\ ditems > 0)
        => /\ dret.how = "pair"
           /\ dret.err = NoError
           /\ dret.acc = DaskFold

C7_Witness ==
    /\ dpc = "returned" /\ ditems >= 5 /\ dask.treereduction = 2 /\ rounds >= 3
    /\ \A i \in 1..ditems : does[i] = "ok"
    /\ dret.acc = DaskFold

\* C8: every round of the reduction loop replaces the list by
\* ceil(|list| / B) handles and that list is shorter, so that the loop comes to
\* a single root handle after finitely many rounds.
C8_RoundShrinks ==
    [][(dpc = "reduce" /\ rounds' = rounds + 1)
          => /\ Len(work') = ceil(Len(work), dask.treereduction)
             /\ Len(work') < Len(work)]_vars

\* C35: a task that returns None adds nothing and fails nothing: a call none
\* of whose tasks raised returns the zero merged with the outputs of the tasks
\* that gave one, also when a whole slice of the tree is None
C35_NullNeverFails ==
    (dpc \in {"returned", "raised"} /\ ditems > 0
     /\ \A i \in 1..ditems : does[i] # "raise")
        => /\ dret.how = "pair"
           /\ dret.err = NoError
           /\ dret.acc = DaskFold

(***************************************************************************)
(* Properties of Runner.automatic_retries (SpecRetry, SpecRetryLive).      *)
(***************************************************************************)
Done == outcome \in {"result", "None", "raised"}

\* C9: a function that raises on its first k <= retries calls and then returns
\* is called again until it returns, and the driver returns that result, with
\* skipbadfiles set or not.
C9_FlakyTaskReturns ==
    (Done /\ fails_first <= retries)
        => (outcome = "result" /\ calls = fails_first + 1)

\* C10: the driver calls func at most retries + 1 times, and every call of the
\* driver ends: it returns func's result, returns None, or re-raises.
C10_Bounded == calls <= retries + 1

C10_AtMostRetriesPlusOne == []C10_Bounded /\ <>Done

C10_Witness ==
    /\ outcome = "result" /\ retries >= 2 /\ calls = retries + 1

\* the last call of func raised, and `raised` is what it raised
LastRaised == calls > 0 /\ outcome # "result"

\* C11: an exception whose chain mentions "Auth failed" is re-raised on the
\* attempt where it occurs, with skipbadfiles set or not and whatever else is
\* in the chain: it is neither retried nor turned into a None return.
C11_AuthIsFatal ==
    (LastRaised /\ raised.auth) => outcome = "raised"

\* C12: with skipbadfiles, an attempt that raises an exception with an OSError
\* or UprootMissTreeError in its chain ends the driver with None: no further
\* attempt is made, whatever is left of the retries.
C12_IOErrorSkips ==
    (skipbadfiles /\ LastRaised /\ raised.oserror)
        => (outcome = "None" /\ ~ENABLED RetryNext)

C12_Witness ==
    /\ skipbadfiles /\ raised.oserror /\ outcome = "None"
    /\ calls = 1 /\ retries >= 2

TimeoutOnly == [oserror |-> FALSE, timeout |-> TRUE, auth |-> FALSE]

\* C13: with skipbadfiles, an exception that only carries one of the timeout
\* messages is retried on every attempt before the last and becomes a None
\* return on attempt retries + 1, and only there; without skipbadfiles the
\* driver never returns None.
C13_TimeoutSkipsAtLast ==
    /\ (skipbadfiles /\ LastRaised /\ raised = TimeoutOnly)
          => /\ calls <= retries => outcome = "running"
             /\ calls = retries + 1 => outcome = "None"
    /\ ~skipbadfiles => outcome # "None"

C13_Witness ==
    /\ skipbadfiles /\ raised = TimeoutOnly /\ outcome = "None"
    /\ retries >= 2 /\ calls = retries + 1

\* C36: whatever executor of this file the Runner has and however it is
\* configured, the driver the Runner builds has retries = 0 and calls the
\* wrapped function once: it never makes a second attempt
C36_RunnerNeverRetries ==
    /\ retries = 0
    /\ calls <= 1
    /\ Done => calls = 1

\* a DaskExecutor with retries, skipbadfiles, and an exception that the
\* driver would otherwise try again
C36_Witness ==
    /\ runner.executor.kind = "dask" /\ runner.executor.retries = MaxRetries
    /\ skipbadfiles /\ fails_first > 1
    /\ raised = NoException /\ outcome = "raised" /\ calls = 1

(***************************************************************************)
(* Further properties of an executor call (Spec).                          *)
(***************************************************************************)
PoolCall == cfg.kind \in {"futures", "parsl"} /\ nitems > 0

\* a work task or a merge task raised
AnyFailure == Raisers # {} \/ FailedMerges # {}

\* C14: a pool executor call in which a task raised ends, when recoverable, by
\* returning the pair (partial accumulator, the exception caught) and, when not
\* recoverable, by raising the exception; a call in which no task raised
\* returns 0 in the second position.
C14_ErrorChannel ==
    (PoolCall /\ Terminated)
        => /\ (AnyFailure /\ cfg.recoverable)
                => /\ pc = "returned" /\ ret.how = "pair"
                   /\ ret.err # NoError /\ ret.err = caught
                   /\ ret.acc.kind = "acc"
           /\ (AnyFailure /\ ~cfg.recoverable)
                => /\ pc = "raised" /\ ret.how = "raised"
                   /\ ret.err # NoError /\ ret.err = caught
           /\ ~AnyFailure
                => (pc = "returned" /\ ret.how = "pair" /\ ret.err = NoError)

C14_Witness ==
    /\ PoolCall /\ cfg.recoverable /\ pc = "returned"
    /\ ret.err \in Raisers
    /\ \E h \in 1..nitems : fut[h].st = "ok" /\ ret.acc.cnt[h] = 1

\* the call returned from its recovery path
RecoveredReturn == PoolCall /\ cfg.recoverable /\ pc = "returned" /\ caught # NoError

\* C15: when a recoverable call returns its partial result, no work handle is
\* still running (each was cancelled or has finished) and no merge handle is
\* in flight.
C15_NothingLeftRunning ==
    RecoveredReturn
        => /\ \A h \in 1..nitems : fut[h].st # "pending"
           /\ FH.merges = {}
           /\ \A h \in MergeHandles : fut[h].st # "pending"

\* C15, the merge handles alone: none is left in flight
C15_MergesDrained ==
    RecoveredReturn
        => (FH.merges = {} /\ \A h \in MergeHandles : fut[h].st # "pending")

\* C16: a call of an executor configured with a tail timeout ends even when
\* work handles never complete: the wait loop does not go on for ever.
C16_TailTimeoutEndsWait ==
    (PoolCall /\ cfg.tailtimeout # NoTimeout) => <>Terminated


(***************************************************************************)
(* Properties of Runner.preprocess (SpecRunner).                           *)
(***************************************************************************)
PreprocessOver == rpc \in {"chunked", "aborted"}

\* C17: with skip_bad_files a call is not aborted by an unreadable file: it
\* chunks exactly the readable files of its fileset; without skip_bad_files
\* a call on a fileset with an unreadable file is aborted
C17_BadFileSkipped ==
    PreprocessOver =>
        IF skipbadfiles
        THEN rpc = "chunked" /\ final_fileset = fileset \ badfiles
        ELSE fileset \cap badfiles # {} => rpc = "aborted"

\* C17, the half on skip_bad_files off: an unreadable file aborts the call
C17_AbortsWithoutSkip ==
    (PreprocessOver /\ ~skipbadfiles /\ fileset \cap badfiles # {})
        => (rpc = "aborted" /\ final_fileset = {})

\* the metadata the cache holds for f serves a call with align_clusters al
CacheServes(f, al) ==
    /\ metadata_cache[f] # NoMeta
    /\ al => metadata_cache[f].clusters # NoClusters

\* C18 as stated: over the calls that share a cache each file is handed to a
\* pre_executor at most once
C18_ProbedAtMostOnce == \A f \in Files : probes[f] <= 1

\* C18: a call never hands to its pre_executor a file for which the cache
\* holds metadata that serves the call's align_clusters
C18_CachedNotSubmitted ==
    [][\A f \in Files :
          CacheServes(f, runner'.align_clusters) => probes'[f] = probes[f]]_vars

C18_Witness ==
    /\ nruns = 2 /\ rpc = "wait"
    /\ \E f \in fileset :
          /\ probes[f] = 1
          /\ CacheServes(f, runner.align_clusters)
          /\ f \notin to_get
    /\ to_get # {}

\* a fileset with a configuration error: some dataset, the last one too, has
\* a reserved key in its user metadata or is of no valid shape
ReservedKeyIn(e) ==
    e.type = "dict" /\ e.metadata # None
    /\ \E k \in DOMAIN e.metadata : k \in _PROTECTED_NAMES

InvalidShape(e, treename) ==
    \/ e.type = "other"
    \/ e.type = "dict" /\ e.files_type = "missing"
    \/ e.files_type = "list" /\ e.treename = NoTree /\ treename = NoTree

Offending(g) ==
    \E i \in 1..Len(g.fileset) :
        ReservedKeyIn(g.fileset[i]) \/ InvalidShape(g.fileset[i], g.treename)

\* C26: a call of preprocess on a fileset with a reserved metadata key or an
\* invalid shape in any of its datasets ends with the error, and the call
\* probes no file, hands nothing to the pre_executor and leaves the metadata
\* cache as it was
C26_ConfigErrorsFirst ==
    [][(nruns' = nruns + 1 /\ Offending(given'))
          => /\ rpc' = "config_error"
             /\ probes' = probes
             /\ metadata_cache' = metadata_cache
             /\ to_get' = to_get
             /\ dpc' = dpc]_vars

\* a second call fails on its last dataset, the first dataset being a valid
\* list of a file that is not in the cache the first call filled
C26_Witness ==
    /\ rpc = "config_error" /\ nruns = 2
    /\ Len(given.fileset) = 2
    /\ ~ReservedKeyIn(given.fileset[1]) /\ ~InvalidShape(given.fileset[1], given.treename)
    /\ ReservedKeyIn(given.fileset[2])
    /\ metadata_cache[given.fileset[1].names[1]] = NoMeta
    /\ \E f \in Files : metadata_cache[f] # NoMeta

\* C34: after preprocessing, every file of the fileset whose probe succeeded
\* is populated and retained for chunking, whatever the size of the cache
C34_ProbedIsRetained ==
    (rpc \in {"chunked", "aborted"} /\ pre_out.how # "raised") =>
        \A f \in fileset \ badfiles :
            /\ rpc = "chunked"
            /\ populated(filemeta[f], runner.align_clusters)
            /\ f \in final_fileset

\* the user metadata the current fileset declares for dataset d
Declared(d) ==
    LET i == CHOOSE k \in 1..Len(given.fileset) : given.fileset[k].dataset = d
    IN IF given.fileset[i].metadata = None THEN EmptyDict
       ELSE given.fileset[i].metadata

\* C39: the usermeta of every WorkItem is the user metadata that the current
\* fileset declares for the WorkItem's dataset, also for a file that is in
\* two datasets or in the cache from an earlier call
C39_OwnUserMeta ==
    rpc = "done" =>
        \A k \in 1..Len(stream) : stream[k].usermeta = Declared(stream[k].dataset)

(***************************************************************************)
(* Properties of JECStack.__init__ (SpecJEC).                              *)
(***************************************************************************)
\* the resolution entries and the scale-factor entries of corrections
ResolutionEntries ==
    {key \in jecstack.args.corrections :
        HasResolution(key) /\ ~HasSF(key) /\ ~HasUncertainty(key)}
ScaleFactorEntries ==
    {key \in jecstack.args.corrections : HasSF(key) /\ ~HasUncertainty(key)}

\* a jer, a jersf would be present: passed explicitly, or made from an entry
WouldHaveJer == jecstack.args.jer # "None" \/ ResolutionEntries # {}
WouldHaveJersf == jecstack.args.jersf # "None" \/ ScaleFactorEntries # {}

\* C40: a constructed JECStack has a jer if and only if it has a jersf; the
\* constructor raises on more than one resolution entry, on more than one
\* scale-factor entry, and when just one of jer and jersf would be present,
\* from corrections or passed explicitly
C40_JerIffJersf ==
    jecstack.built # NotBuilt =>
        /\ jecstack.built # Raised =>
              ((jecstack.built.jer = "None") <=> (jecstack.built.jersf = "None"))
        /\ Cardinality(ResolutionEntries) > 1 => jecstack.built = Raised
        /\ Cardinality(ScaleFactorEntries) > 1 => jecstack.built = Raised
        /\ (WouldHaveJer # WouldHaveJersf) => jecstack.built = Raised

\* a stack with an explicit jer and a jersf made from corrections, next to
\* a resolution entry the explicit jer stands in for
C40_Witness ==
    /\ jecstack.built.how = "made"
    /\ jecstack.built.jer = "given" /\ jecstack.built.jersf = "made"
    /\ jecstack.args.corrections = {"Summer_ResolutionSF", "Summer_PtResolution"}

(***************************************************************************)
(* Properties of Runner._normalize_fileset (SpecNormalize).                *)
(***************************************************************************)
\* C30: when the "files" of a dataset is a map {filename: treename}, every
\* file of the dataset is normalised to a FileMeta whose tree name is the one
\* the map gives for it, with or without a top-level or dataset-level tree
\* name
C30_PerFileTreeNames ==
    (rpc = "normalized" /\ ~listed.exc) =>
        \A i \in 1..Len(given.fileset) :
            LET e == given.fileset[i] IN
            e.files_type = "dict" =>
                \A k \in 1..Len(e.names) :
                    \E j \in 1..Len(listed.val) :
                        /\ listed.val[j].dataset = e.dataset
                        /\ listed.val[j].filename = e.names[k]
                        /\ listed.val[j].treename = e.trees[k]

(***************************************************************************)
(* Properties of the chunk stream (SpecStream).                            *)
(***************************************************************************)
\* the WorkItems of dataset d, or of file id, in a list of WorkItems
OfDataset(items, d) == {k \in 1..Len(items) : items[k].dataset = d}
OfFile(items, id) == {k \in 1..Len(items) : items[k].filename = id}

\* the number of chunks file id gives
ChunksOfFile(id) ==
    Len(Ranges(AsMeta(normalized[id].metadata), config.chunksize,
               config.align_clusters))

\* the chunks of the retained files of dataset d, as <<file, number>>
ChunksOfDataset(d) ==
    {p \in (1..MaxFiles) \X (1..MaxEntries) :
        /\ \E i \in 1..Len(retained) :
              retained[i].filename = p[1] /\ retained[i].dataset = d
        /\ p[2] <= ChunksOfFile(p[1])}

Capped == spc = "done" /\ config.maxchunks # NoCap

\* C24: with maxchunks = M the stream holds, of every dataset, exactly
\* min(M, number of chunks of the dataset's retained files) WorkItems
C24_CapPerDataset ==
    Capped =>
        \A d \in Datasets :
            Cardinality(OfDataset(stream, d))
                = Min(config.maxchunks, Cardinality(ChunksOfDataset(d)))

\* two files of one dataset, the cap reached inside the second file chunked
C24_Witness ==
    /\ Capped /\ Len(retained) = 2 /\ config.maxchunks >= 2
    /\ retained[1].dataset = retained[2].dataset
    /\ Cardinality(ChunksOfDataset(retained[1].dataset)) > config.maxchunks
    /\ OfFile(stream, retained[1].filename) # {}
    /\ OfFile(stream, retained[2].filename) # {}
    /\ Len(stream) = config.maxchunks

\* C25: in the stream the files come in the reverse of their order in the
\* normalized fileset (filename is the place in that order), the chunks of a
\* file one after the other by increasing entrystart; every retained file is
\* there when there is no cap, and with a cap a file of a dataset has chunks
\* in the stream only if the dataset's later files have all of theirs
C25_ReverseOrder ==
    spc = "done" =>
        /\ \A i \in 1..Len(stream), j \in 1..Len(stream) :
              i < j => \/ stream[i].filename > stream[j].filename
                       \/ /\ stream[i].filename = stream[j].filename
                          /\ stream[i].entrystart < stream[j].entrystart
        /\ config.maxchunks = NoCap =>
              \A k \in 1..Len(retained) :
                  Cardinality(OfFile(stream, retained[k].filename))
                      = ChunksOfFile(retained[k].filename)
        /\ \A a \in 1..Len(retained), b \in 1..Len(retained) :
              (/\ retained[a].dataset = retained[b].dataset
               /\ retained[a].filename < retained[b].filename
               /\ OfFile(stream, retained[a].filename) # {})
                 => Cardinality(OfFile(stream, retained[b].filename))
                        = ChunksOfFile(retained[b].filename)

\* a capped stream that has every chunk of the dataset's last file and only
\* a part of the chunks of its first file
C25_Witness ==
    /\ Capped /\ Len(normalized) = 2 /\ Len(retained) = 2
    /\ normalized[1].dataset = normalized[2].dataset
    /\ stream # <<>> /\ stream[1].filename = 2
    /\ Cardinality(OfFile(stream, 2)) = ChunksOfFile(2)
    /\ OfFile(stream, 1) # {}
    /\ Cardinality(OfFile(stream, 1)) < ChunksOfFile(1)

\* C29: the usermeta of every WorkItem is the file's metadata without the
\* reserved keys: the same keys with the same values, no reserved key; the
\* chunks of one file carry the same mapping
C29_UserMeta ==
    \A k \in 1..Len(stream) :
        LET item == stream[k]
            metadata == normalized[item.filename].metadata
        IN /\ DOMAIN item.usermeta = (DOMAIN metadata) \ _PROTECTED_NAMES
           /\ \A key \in DOMAIN item.usermeta : item.usermeta[key] = metadata[key]
           /\ DOMAIN item.usermeta \cap _PROTECTED_NAMES = {}
           /\ \A j \in 1..Len(stream) :
                 stream[j].filename = item.filename => stream[j].usermeta = item.usermeta

\* several chunks of a file whose dataset has user metadata, cluster offsets
\* in the file's metadata
C29_Witness ==
    /\ spc = "done"
    /\ \E k \in 1..Len(stream) :
          /\ DOMAIN stream[k].usermeta = {"a"}
          /\ "clusters" \in DOMAIN normalized[stream[k].filename].metadata
          /\ Cardinality(OfFile(stream, stream[k].filename)) >= 2
====
